---------------------------- MODULE Spec2Model ----------------------------
(***************************************************************************)
(* Model of BrowserPoolService (src/src/pdf/services/pdf.service.ts,       *)
(* lines 743-1541): the browser pool, the page pool and the request        *)
(* concurrency gate of the HTML-to-PDF backend, and of the PdfService that *)
(* converts on pages of the pool (src/unnamed/part_004).                   *)
(*                                                                         *)
(* The service runs on one Node.js event loop.  Every action below is one  *)
(* synchronous segment of the code: from an entry point or from the        *)
(* resumption of an `await` up to the next `await` on an external call     *)
(* (puppeteer.launch, browser.newPage, configurePage, resetPageForReuse,   *)
(* page.close, browser.close).  The outcome of an external call is an      *)
(* input of the action that resumes after it.                              *)
(***************************************************************************)
EXTENDS Integers, Sequences, FiniteSets, TLC

(***************************************************************************)
(* Configuration of the pool.  The source sets maxBrowsers = 3 (line 749), *)
(* maxPagesPerBrowser = 8 (750), browserMaxAge = 10 min (751),             *)
(* maxConcurrentRequests = 10 (754), pagePoolSize = 8 (759) and            *)
(* maxPageAge = 5 min (760).  The model keeps the names and scales the     *)
(* values down; ages are counted in ticks of the clock `now`.              *)
(***************************************************************************)
maxBrowsers == 2
maxPagesPerBrowser == 1
browserMaxAge == 1
maxConcurrentRequests == 2
pagePoolSize == 1
maxPageAge == 1

(* Bounds of the exploration: the requests of SpecAdmission, of Spec and of
   SpecFaults, the browsers launched beyond the first maxBrowsers, the last
   tick of the clock, the faultsLeft of a run (a browser that dies, an
   external call that fails though it could succeed), the calls of
   initializeBrowsers on the running service, and the calls of
   onModuleDestroy and of restartBrowsers. *)
NumRequests == 4
PoolRequests == 3
FaultRequests == 2
ExtraBrowsers == 3
MaxTime == 2
MaxFaults == 1
MaxInitCalls == 1
MaxShutdownCalls == 2
MaxRestarts == 1

(* The arguments of the retryOperation calls of PdfService
   (src/unnamed/part_004): page.pdf is tried twice, 500 ms apart (lines
   116-117, 351-352), page.goto three times, from 1000 ms (lines 281-282). *)
pdfRetries == 2
pdfRetryDelay == 500
navigationRetries == 3
navigationRetryDelay == 1000

Requests == 1..NumRequests
Pages == 1..NumRequests
BrowserIds == 1..(maxBrowsers + ExtraBrowsers)

VARIABLES
    browsers,        \* this.browsers: sequence of browser-instance ids
    inst,            \* the BrowserInstance objects, by id
    launched,        \* number of BrowserInstance objects created so far
    activeRequests,  \* this.activeRequests
    requestQueue,    \* this.requestQueue: sequence of pending requests
    pagePool,        \* this.pagePool: sequence of PagePoolItem
    pageOwner,       \* page -> id of the browser whose newPage() made it (0: none)
    pageClosed,      \* page -> page.isClosed()
    pageHandler,     \* page -> the "close" listener of configurePage is set
    req,             \* request -> position of its getPage / closePage call
    boot,            \* position of onModuleInit
    cleanup,         \* position of the running cleanupPagePool, if any
    health,          \* position of the running performBrowserHealthCheck, if any
    now,             \* Date.now()
    faultsLeft,      \* faultsLeft the environment may still inject in this run
    queuedLog,       \* history: requests in the order they were queued
    grantedLog,      \* history: requests in the order they were dequeued
    again,           \* the caller that calls closePage twice on its page, if any
    initCalls,       \* calls of initializeBrowsers made after onModuleInit
    timers,          \* poolCleanupInterval, browserHealthCheckInterval are set
    down,            \* position of the running onModuleDestroy / restartBrowsers
    conv,            \* request -> its convertHtmlToPdf / convertUrlToPdf call
    retry,           \* request -> the retryOperation call of its conversion
    closeRejects     \* the browsers whose browser.close() rejects

vars == <<browsers, inst, launched, activeRequests, requestQueue, pagePool,
          pageOwner, pageClosed, pageHandler, req, boot, cleanup, health, now,
          faultsLeft, queuedLog, grantedLog, again, initCalls, timers, down,
          conv, retry, closeRejects>>

(***************************************************************************)
(* The pool state that the synchronous segments read and write, as one     *)
(* record, so that a segment is a function from state to state.            *)
(***************************************************************************)
Cur ==
    [browsers |-> browsers, inst |-> inst, launched |-> launched,
     activeRequests |-> activeRequests, requestQueue |-> requestQueue,
     pagePool |-> pagePool, pageOwner |-> pageOwner, pageClosed |-> pageClosed,
     pageHandler |-> pageHandler, req |-> req,
     cleanup |-> cleanup, health |-> health,
     queuedLog |-> queuedLog, grantedLog |-> grantedLog, again |-> again,
     timers |-> timers, down |-> down, conv |-> conv, retry |-> retry,
     closeRejects |-> closeRejects]

Apply(s) ==
    /\ browsers' = s.browsers
    /\ inst' = s.inst
    /\ launched' = s.launched
    /\ activeRequests' = s.activeRequests
    /\ requestQueue' = s.requestQueue
    /\ pagePool' = s.pagePool
    /\ pageOwner' = s.pageOwner
    /\ pageClosed' = s.pageClosed
    /\ pageHandler' = s.pageHandler
    /\ req' = s.req
    /\ cleanup' = s.cleanup
    /\ health' = s.health
    /\ queuedLog' = s.queuedLog
    /\ grantedLog' = s.grantedLog
    /\ again' = s.again
    /\ timers' = s.timers
    /\ down' = s.down
    /\ conv' = s.conv
    /\ retry' = s.retry
    /\ closeRejects' = s.closeRejects

NoInstance ==
    [activePages |-> 0, createdAt |-> 0, lastUsed |-> 0,
     isHealthy |-> FALSE, connected |-> FALSE]

NewInstance ==
    [activePages |-> 0, createdAt |-> now, lastUsed |-> now,
     isHealthy |-> TRUE, connected |-> TRUE]

IdleRequest == [pc |-> "idle", browser |-> 0, page |-> 0]

(* both interval handles are null (lines 764-765, 1454-1459, 1505-1510) *)
TimersStopped == [cleanup |-> FALSE, health |-> FALSE]

(* both setInterval timers run (lines 1445-1451, 1496-1502) *)
TimersStarted == [cleanup |-> TRUE, health |-> TRUE]

(* JavaScript values passed as html or url: a string is a sequence of
   tokens, a number has a value, undefined has neither *)
Str(chars) == [type |-> "string", chars |-> chars, value |-> 0]
Num(n) == [type |-> "number", chars |-> <<>>, value |-> n]
Undefined == [type |-> "undefined", chars |-> <<>>, value |-> 0]

(* no convertHtmlToPdf or convertUrlToPdf call was made for the request.
   recorded lists the prometheusService.recordError calls of the call,
   result and message are what the call returned or threw; page is the
   local variable page of the call (0: undefined) and closes counts its
   closePage calls. *)
NoConversion ==
    [pc |-> "idle", kind |-> "none", input |-> Undefined, recorded |-> <<>>,
     result |-> "none", message |-> "none", page |-> 0, closes |-> 0]

(* no retryOperation call was made for the request.  attempt, delay and
   lastError are the variables of the call (lines 177-180); first is the
   delay it was called with, calls counts the invocations of the operation,
   waits lists the delays of the setTimeout calls, errors the messages of
   the failed attempts, thrown the message of the error the call threw. *)
NoRetry ==
    [pc |-> "idle", stage |-> "none", maxRetries |-> 0, first |-> 0,
     delay |-> 0, attempt |-> 0, calls |-> 0, waits |-> <<>>,
     errors |-> <<>>, lastError |-> <<>>, thrown |-> <<>>]

(* no onModuleDestroy or restartBrowsers call was made yet.  index is the
   position of the loop over this.pagePool, page the page whose close is
   awaited, pending the browsers whose close is awaited; destroys and
   restarts count the calls made, returned the calls that have returned;
   oldBrowsers and oldPages record this.browsers and the pages of
   this.pagePool at the last restartBrowsers call, result how it ended. *)
NoShutdown ==
    [pc |-> "idle", kind |-> "none", index |-> 0, page |-> 0, pending |-> {},
     destroys |-> 0, restarts |-> 0, returned |-> 0,
     oldBrowsers |-> {}, oldPages |-> {}, result |-> "none"]

SetReq(s, r, pc, b, p) ==
    [s EXCEPT !.req[r] = [pc |-> pc, browser |-> b, page |-> p]]

(* ---------------- sequence helpers ---------------- *)

RECURSIVE IndexOf(_, _, _)
IndexOf(seq, x, i) ==
    IF i > Len(seq) THEN 0
    ELSE IF seq[i] = x THEN i ELSE IndexOf(seq, x, i + 1)

RemoveAt(seq, i) ==
    [k \in 1..(Len(seq) - 1) |-> IF k < i THEN seq[k] ELSE seq[k + 1]]

(* Array.prototype.splice(index, 1) after indexOf, guarded by index > -1 *)
Splice(seq, x) ==
    LET i == IndexOf(seq, x, 1) IN IF i > 0 THEN RemoveAt(seq, i) ELSE seq

RECURSIVE PoolIndexOfPage(_, _, _)
PoolIndexOfPage(pool, p, i) ==
    IF i > Len(pool) THEN 0
    ELSE IF pool[i].page = p THEN i ELSE PoolIndexOfPage(pool, p, i + 1)

(* Math.max(0, n - 1) *)
ClampDec(n) == IF n - 1 > 0 THEN n - 1 ELSE 0

(* ---------------- browser selection ---------------- *)

RECURSIVE HealthyBrowsers(_, _)
HealthyBrowsers(s, i) ==
    IF i > Len(s.browsers) THEN <<>>
    ELSE IF s.inst[s.browsers[i]].isHealthy
         THEN <<s.browsers[i]>> \o HealthyBrowsers(s, i + 1)
         ELSE HealthyBrowsers(s, i + 1)

(* a reduce that lets the later of two browsers with equally many pages win *)
RECURSIVE ReduceLeastPagesLastTie(_, _, _, _)
ReduceLeastPagesLastTie(s, hs, best, i) ==
    IF i > Len(hs) THEN best
    ELSE ReduceLeastPagesLastTie(s, hs,
            IF s.inst[hs[i]].activePages <= s.inst[best].activePages
            THEN hs[i] ELSE best,
            i + 1)

(* a reduce that selects the healthy browser with the most pages *)
RECURSIVE ReduceMostPages(_, _, _, _)
ReduceMostPages(s, hs, best, i) ==
    IF i > Len(hs) THEN best
    ELSE ReduceMostPages(s, hs,
            IF s.inst[hs[i]].activePages > s.inst[best].activePages
            THEN hs[i] ELSE best,
            i + 1)

RECURSIVE ReduceLeastPages(_, _, _, _)
ReduceLeastPages(s, hs, best, i) ==
    IF i > Len(hs) THEN best
    ELSE ReduceLeastPages(s, hs,
            IF s.inst[hs[i]].activePages < s.inst[best].activePages
            THEN hs[i] ELSE best,
            i + 1)

(* selectBestBrowser: 0 stands for null *)
SelectBestBrowser(s) ==
    LET hs == HealthyBrowsers(s, 1)
    IN IF Len(hs) = 0 THEN 0 ELSE ReduceLeastPages(s, hs, hs[1], 2)

(* the browser the loops "for (b of this.browsers) if (b.browser.isConnected())
   { ...; break }" stop at; 0 when there is none *)
RECURSIVE FirstConnected(_, _)
FirstConnected(s, i) ==
    IF i > Len(s.browsers) THEN 0
    ELSE IF s.inst[s.browsers[i]].connected THEN s.browsers[i]
         ELSE FirstConnected(s, i + 1)

DecrementFirstConnected(s) ==
    LET b == FirstConnected(s, 1)
    IN IF b = 0 THEN s
       ELSE [s EXCEPT !.inst[b].activePages = ClampDec(@)]

(* ---------------- getPage and the request queue ---------------- *)

(* a gate that lets one request too many through *)
AtCapacityOffByOne(s) == s.activeRequests > maxConcurrentRequests

(* getPage, line 908: the concurrency limit is reached *)
AtCapacity(s) == s.activeRequests >= maxConcurrentRequests

(* processNextQueuedRequest, lines 945-948 *)
CanProcessNext(s) ==
    Len(s.requestQueue) > 0 /\ s.activeRequests < maxConcurrentRequests

(* a queue served from its tail: requestQueue.pop() *)
Pop(q) == [entry |-> q[Len(q)], rest |-> SubSeq(q, 1, Len(q) - 1)]

(* requestQueue.shift(), line 949: the entry taken and the queue left *)
Shift(q) == [entry |-> Head(q), rest |-> Tail(q)]

(* a getPooledPage that takes locked items too *)
RECURSIVE AvailablePageIndexIgnoresLock(_, _)
AvailablePageIndexIgnoresLock(pool, i) ==
    IF i > Len(pool) THEN 0
    ELSE IF now - pool[i].lastUsed < maxPageAge THEN i
         ELSE AvailablePageIndexIgnoresLock(pool, i + 1)

(* getPooledPage, lines 964-966: findIndex over the pool; 0 stands for -1 *)
RECURSIVE AvailablePageIndex(_, _)
AvailablePageIndex(pool, i) ==
    IF i > Len(pool) THEN 0
    ELSE IF ~pool[i].isLocked /\ now - pool[i].lastUsed < maxPageAge THEN i
         ELSE AvailablePageIndex(pool, i + 1)

(* createNewPage, line 988 *)
BrowserFull(s, b) == s.inst[b].activePages >= maxPagesPerBrowser

(* a pool that takes one page too many *)
PoolHasSpaceOffByOne(s) == Len(s.pagePool) <= pagePoolSize

(* createNewPage, line 1005 *)
PoolHasSpace(s) == Len(s.pagePool) < pagePoolSize

RECURSIVE GetPage(_, _), CreateNewPage(_, _), Finally(_),
          ProcessNextQueuedRequest(_)

(* a finally block that frees the slot and wakes nobody *)
FinallyWithoutWake(s) == [s EXCEPT !.activeRequests = @ - 1]

(* a createNewPage whose "no healthy browser" error leaves getPage without
   running the finally block *)
CreateNewPageKeepsSlot(s, r) ==
    LET bestBrowser == SelectBestBrowser(s)
    IN IF bestBrowser = 0
       THEN SetReq(s, r, "failed", 0, 0)
       ELSE IF BrowserFull(s, bestBrowser)
            THEN SetReq(s, r, "replaceClose", bestBrowser, 0)
            ELSE SetReq(s, r, "newPage", bestBrowser, 0)

(* getPage from its entry to its first await, or to its return through the
   finally block when it does not await *)
GetPage(s, r) ==
    IF AtCapacity(s)
    THEN [SetReq(s, r, "queued", 0, 0) EXCEPT
            !.requestQueue = Append(@, r),
            !.queuedLog = Append(@, r)]
    ELSE LET s1 == [s EXCEPT !.activeRequests = @ + 1]
             i == AvailablePageIndex(s1.pagePool, 1)
         IN IF i > 0
            THEN Finally(SetReq(
                    [s1 EXCEPT !.pagePool[i].isLocked = TRUE,
                               !.pagePool[i].lastUsed = now],
                    r, "holding", 0, s1.pagePool[i].page))
            ELSE CreateNewPage(s1, r)

(* createNewPage from its entry to its first await (lines 980-997) *)
CreateNewPage(s, r) ==
    LET bestBrowser == SelectBestBrowser(s)
    IN IF bestBrowser = 0
       THEN Finally(SetReq(s, r, "failed", 0, 0))
       ELSE IF BrowserFull(s, bestBrowser)
            THEN SetReq(s, r, "replaceClose", bestBrowser, 0)
            ELSE SetReq(s, r, "newPage", bestBrowser, 0)

(* the finally block of getPage, lines 938-941 *)
Finally(s) ==
    ProcessNextQueuedRequest([s EXCEPT !.activeRequests = @ - 1])

(* processNextQueuedRequest, lines 944-958 *)
ProcessNextQueuedRequest(s) ==
    IF CanProcessNext(s)
    THEN LET shifted == Shift(s.requestQueue)
             nextRequest == shifted.entry
         IN GetPage([s EXCEPT !.requestQueue = shifted.rest,
                              !.grantedLog = Append(@, nextRequest)],
                    nextRequest)
    ELSE s

(* ---------------- closing a page ---------------- *)

(* what a page.close() that succeeds triggers before the awaiting code
   resumes: the page is closed, its "close" listener (configurePage, lines
   1149-1163) and the "targetdestroyed" listener of its browser
   (createBrowserInstance, lines 886-894) run *)
PageCloseEvents(s, p) ==
    LET s1 == [s EXCEPT !.pageClosed[p] = TRUE]
        s2 == IF s.pageHandler[p] THEN DecrementFirstConnected(s1) ELSE s1
    IN [s2 EXCEPT !.inst[s.pageOwner[p]].activePages = ClampDec(@)]

(* page.close() can succeed on an open page of a connected browser *)
PageUsable(s, p) == ~s.pageClosed[p] /\ s.inst[s.pageOwner[p]].connected

(* lines 1181-1194 and 1267-1277 after the await: the events of the close,
   then the explicit update of the page count *)
ClosedAndCounted(s, p) == DecrementFirstConnected(PageCloseEvents(s, p))

(* removePageFromPool, lines 1260-1263 *)
RemoveItem(s, p) ==
    LET i == PoolIndexOfPage(s.pagePool, p, 1)
    IN IF i > 0 THEN [s EXCEPT !.pagePool = RemoveAt(@, i)] ELSE s

(* ---------------- replacing a browser ---------------- *)

(* replaceUnhealthyBrowser after browser.close() has resolved (lines
   1052-1058): the browser is gone, its "disconnected" listener (lines
   871-876) has run, and the instance leaves this.browsers *)
BrowserClosed(s, b) ==
    [s EXCEPT !.inst[b].connected = FALSE,
              !.inst[b].isHealthy = FALSE,
              !.browsers = Splice(@, b)]

(* createBrowserInstance after puppeteer.launch has resolved (lines 861-896) *)
CreateBrowserInstance(s) ==
    [s EXCEPT !.launched = @ + 1,
              !.inst[s.launched + 1] = NewInstance,
              !.browsers = Append(@, s.launched + 1)]

CanLaunch(s) == s.launched < maxBrowsers + ExtraBrowsers

(* browser.close() can resolve for browser b *)
Closable(s, b) == b \notin s.closeRejects

(* the outcome of an external call: a call that cannot succeed fails; a
   failure of a call that could have succeeded is a fault of the run *)
Outcome(ok, possible) ==
    /\ ok => possible
    /\ (~ok /\ possible) => faultsLeft > 0
    /\ faultsLeft' = IF ~ok /\ possible THEN faultsLeft - 1 ELSE faultsLeft

(* ---------------- onModuleInit ---------------- *)

PoolInit ==
    /\ browsers = <<>>
    /\ inst = [b \in BrowserIds |-> NoInstance]
    /\ launched = 0
    /\ activeRequests = 0
    /\ requestQueue = <<>>
    /\ pagePool = <<>>
    /\ pageOwner = [p \in Pages |-> 0]
    /\ pageClosed = [p \in Pages |-> FALSE]
    /\ pageHandler = [p \in Pages |-> FALSE]
    /\ req = [r \in Requests |-> IdleRequest]
    /\ boot = [pc |-> "start", pending |-> 0]
    /\ cleanup = [pc |-> "idle", page |-> 0, rest |-> <<>>]
    /\ health = [pc |-> "idle", browser |-> 0, rest |-> <<>>]
    /\ now = 0
    /\ queuedLog = <<>>
    /\ grantedLog = <<>>
    /\ again = [pc |-> "none", r |-> 0, page |-> 0]
    /\ initCalls = 0
    /\ timers = TimersStopped
    /\ down = NoShutdown
    /\ conv = [r \in Requests |-> NoConversion]
    /\ retry = [r \in Requests |-> NoRetry]
    /\ closeRejects = {}

(* onModuleInit calls initializeBrowsers (lines 767-768, 779-790): one
   createBrowserInstance per browser, all started before any completes *)
InitializeBrowsers ==
    /\ boot.pc = "start"
    /\ Len(browsers) = 0
    /\ boot' = [pc |-> "launching", pending |-> maxBrowsers]
    /\ UNCHANGED <<browsers, inst, launched, activeRequests, requestQueue,
                   pagePool, pageOwner, pageClosed, pageHandler, req, cleanup,
                   health, now, faultsLeft, queuedLog, grantedLog, again,
                   initCalls, timers, down, conv, retry,
                   closeRejects>>

(* what the settling of a launch of initializeBrowsers resumes.  When the
   Promise.all of onModuleInit resolves, the two timers are started (lines
   769-770).  When the Promise.all of the initializeBrowsers that
   restartBrowsers awaits resolves, or rejects on the first failure,
   restartBrowsers returns (lines 1410, 791-800). *)
LaunchSettled(s, ok) ==
    LET s1 == IF boot.pc = "launching" /\ ok /\ boot.pending = 1
              THEN [s EXCEPT !.timers = TimersStarted]
              ELSE s
    IN IF s.down.pc = "init" /\ (~ok \/ boot.pending = 1)
       THEN [s1 EXCEPT !.down.pc = "idle",
                       !.down.result = IF ok THEN "ok" ELSE "failed",
                       !.down.returned = @ + 1]
       ELSE s1

(* one puppeteer.launch of initializeBrowsers settles.  When the last one
   has resolved, Promise.all resolves and onModuleInit starts the two timers
   (lines 769-770); the first rejection rejects Promise.all and onModuleInit
   throws (lines 797-800), while the other launches still complete *)
InitLaunchDone(ok) ==
    /\ boot.pc \in {"launching", "failed", "ready"}
    /\ boot.pending > 0
    /\ Outcome(ok, CanLaunch(Cur))
    /\ Apply(LaunchSettled(IF ok THEN CreateBrowserInstance(Cur) ELSE Cur, ok))
    /\ boot' = [pc |-> IF boot.pc = "ready" THEN "ready"
                       ELSE IF ~ok \/ boot.pc = "failed" THEN "failed"
                       ELSE IF boot.pending = 1 THEN "ready" ELSE "launching",
                pending |-> boot.pending - 1]
    /\ UNCHANGED <<now, initCalls>>

Ready == boot.pc = "ready"

(* an initializeBrowsers that starts its launches whatever this.browsers holds *)
LaunchesStartedAlways(s) == maxBrowsers

(* initializeBrowsers, lines 780-790: the launches a call starts; none when
   this.browsers is not empty *)
LaunchesStarted(s) == IF Len(s.browsers) > 0 THEN 0 ELSE maxBrowsers

(* initializeBrowsers is called on the running service, as restartBrowsers
   does (line 1410); its launches settle with InitLaunchDone and their
   failure does not undo onModuleInit *)
InitializeBrowsersAgain ==
    /\ Ready
    /\ initCalls < MaxInitCalls
    /\ initCalls' = initCalls + 1
    /\ boot' = [boot EXCEPT !.pending = @ + LaunchesStarted(Cur)]
    /\ UNCHANGED <<browsers, inst, launched, activeRequests, requestQueue,
                   pagePool, pageOwner, pageClosed, pageHandler, req, cleanup,
                   health, now, faultsLeft, queuedLog, grantedLog, again,
                   timers, down, conv, retry, closeRejects>>

(* ---------------- requests ---------------- *)

(* a caller invokes getPage (lines 906-942).  Requests are numbered in the
   order of their calls. *)
RequestGetPage(r) ==
    /\ Ready
    /\ req[r].pc = "idle"
    /\ r > 1 => req[r - 1].pc # "idle"
    /\ Apply(GetPage(Cur, r))
    /\ UNCHANGED <<boot, now, faultsLeft, initCalls>>

(* bestBrowser.browser.newPage() settles (lines 997-1002, 1023-1029) *)
NewPageDone(r, ok) ==
    /\ req[r].pc = "newPage"
    /\ Outcome(ok, inst[req[r].browser].connected)
    /\ LET b == req[r].browser
       IN Apply(IF ok
                THEN SetReq([Cur EXCEPT !.inst[b].activePages = @ + 1,
                                        !.inst[b].lastUsed = now,
                                        !.pageOwner[r] = b],
                            r, "configure", 0, r)
                ELSE Finally(SetReq(Cur, r, "failed", 0, 0)))
    /\ UNCHANGED <<boot, now, initCalls>>

(* the page item createNewPage adds to the pool (lines 1006-1012) *)
NewPageItem(p) ==
    [page |-> p, createdAt |-> now, lastUsed |-> now, isLocked |-> TRUE]

(* configurePage settles (lines 1002-1022); getPage returns through its
   finally block *)
ConfigurePageDone(r, ok) ==
    /\ req[r].pc = "configure"
    /\ Outcome(ok, PageUsable(Cur, req[r].page))
    /\ LET p == req[r].page
           s1 == [Cur EXCEPT !.pageHandler[p] = TRUE]
           s2 == IF PoolHasSpace(s1)
                 THEN [s1 EXCEPT !.pagePool = Append(@, NewPageItem(p))]
                 ELSE s1
       IN Apply(IF ok
                THEN Finally(SetReq(s2, r, "holding", 0, p))
                ELSE Finally(SetReq(Cur, r, "failed", 0, 0)))
    /\ UNCHANGED <<boot, now, initCalls>>

(* browser.close() of replaceUnhealthyBrowser, called from createNewPage
   (line 992), settles; on an error the catch block (lines 1064-1069) returns
   and createNewPage is retried (line 993) *)
ReplaceCloseDone(r, ok) ==
    /\ req[r].pc = "replaceClose"
    /\ Outcome(ok, Closable(Cur, req[r].browser))
    /\ LET b == req[r].browser
       IN Apply(IF ok
                THEN SetReq(BrowserClosed(Cur, b), r, "replaceLaunch", b, 0)
                ELSE CreateNewPage(Cur, r))
    /\ UNCHANGED <<boot, now, initCalls>>

(* puppeteer.launch of the replacement (line 1061) settles, then
   createNewPage is retried (line 993) *)
ReplaceLaunchDone(r, ok) ==
    /\ req[r].pc = "replaceLaunch"
    /\ Outcome(ok, CanLaunch(Cur))
    /\ Apply(CreateNewPage(IF ok THEN CreateBrowserInstance(Cur) ELSE Cur, r))
    /\ UNCHANGED <<boot, now, initCalls>>

(* closePage(p) from its entry to its first await (lines 1170-1181): a page
   of the pool goes to returnPageToPool, another one is closed unless it is
   closed already *)
ClosePageCall(s, r, p) ==
    IF PoolIndexOfPage(s.pagePool, p, 1) > 0
    THEN SetReq(s, r, "reset", 0, p)
    ELSE IF ~s.pageClosed[p]
         THEN SetReq(s, r, "pageClose", 0, p)
         ELSE SetReq(s, r, "released", 0, 0)

(* a caller invokes closePage on the page it holds (lines 1170-1181) *)
ClosePage(r) ==
    /\ req[r].pc = "holding"
    /\ Apply(ClosePageCall(Cur, r, req[r].page))
    /\ UNCHANGED <<boot, now, faultsLeft, initCalls>>

(* the same call by a caller that keeps its reference to the page and will
   call closePage on it once more *)
ClosePageFirst(r) ==
    /\ req[r].pc = "holding"
    /\ again.pc = "none"
    /\ Apply([ClosePageCall(Cur, r, req[r].page) EXCEPT
                !.again = [pc |-> "first", r |-> r, page |-> req[r].page]])
    /\ UNCHANGED <<boot, now, faultsLeft, initCalls>>

(* that caller invokes closePage again after its first call has returned *)
ClosePageAgain ==
    /\ again.pc = "first"
    /\ req[again.r].pc = "released"
    /\ Apply([ClosePageCall(Cur, again.r, again.page) EXCEPT
                !.again.pc = "second"])
    /\ UNCHANGED <<boot, now, faultsLeft, initCalls>>

(* the page item of returnPageToPool is unlocked (lines 1208-1209); the item
   may have left the pool meanwhile *)
UnlockItem(s, p) ==
    LET i == PoolIndexOfPage(s.pagePool, p, 1)
    IN IF i > 0
       THEN [s EXCEPT !.pagePool[i].isLocked = FALSE,
                      !.pagePool[i].lastUsed = now]
       ELSE s

(* resetPageForReuse settles in returnPageToPool (lines 1202-1219); on an
   error removePageFromPool runs to its page.close() (lines 1259-1267) *)
ResetDone(r, ok) ==
    /\ req[r].pc = "reset"
    /\ Outcome(ok, PageUsable(Cur, req[r].page))
    /\ LET p == req[r].page
       IN Apply(IF ok
                THEN SetReq(UnlockItem(Cur, p), r, "released", 0, 0)
                ELSE IF ~pageClosed[p]
                     THEN SetReq(RemoveItem(Cur, p), r, "poolClose", 0, p)
                     ELSE SetReq(RemoveItem(Cur, p), r, "released", 0, 0))
    /\ UNCHANGED <<boot, now, initCalls>>

(* a closePage that lets the error of page.close() reach its caller *)
CloseErrorThrown(s, r) == SetReq(s, r, "releaseFailed", 0, 0)

(* the catch blocks of closePage (lines 1197-1199) and of removePageFromPool
   (lines 1279-1281): the error of page.close() is logged and the call
   returns *)
CloseErrorCaught(s, r) == SetReq(s, r, "released", 0, 0)

(* page.close() settles in closePage (lines 1181-1194) or in the
   removePageFromPool that returnPageToPool called (lines 1267-1281) *)
PageCloseDone(r, ok) ==
    /\ req[r].pc \in {"pageClose", "poolClose"}
    /\ Outcome(ok, PageUsable(Cur, req[r].page))
    /\ LET p == req[r].page
       IN Apply(IF ok
                THEN SetReq(ClosedAndCounted(Cur, p), r, "released", 0, 0)
                ELSE CloseErrorCaught(Cur, r))
    /\ UNCHANGED <<boot, now, initCalls>>

(* ---------------- the page pool sweep ---------------- *)

(* a sweep that also removes the items whose age is exactly maxPageAge *)
RECURSIVE PagesToRemoveAtMaxAge(_, _)
PagesToRemoveAtMaxAge(pool, i) ==
    IF i > Len(pool) THEN <<>>
    ELSE LET age == now - pool[i].createdAt
             idleTime == now - pool[i].lastUsed
         IN IF age >= maxPageAge \/ (idleTime > maxPageAge /\ ~pool[i].isLocked)
            THEN <<pool[i].page>> \o PagesToRemoveAtMaxAge(pool, i + 1)
            ELSE PagesToRemoveAtMaxAge(pool, i + 1)

(* cleanupPagePool, lines 1518-1528: the pages of the items to remove *)
RECURSIVE PagesToRemove(_, _)
PagesToRemove(pool, i) ==
    IF i > Len(pool) THEN <<>>
    ELSE LET age == now - pool[i].createdAt
             idleTime == now - pool[i].lastUsed
         IN IF age > maxPageAge \/ (idleTime > maxPageAge /\ ~pool[i].isLocked)
            THEN <<pool[i].page>> \o PagesToRemove(pool, i + 1)
            ELSE PagesToRemove(pool, i + 1)

(* the loop of lines 1531-1533 up to the next page.close() it awaits:
   removePageFromPool takes the item out of the pool (lines 1260-1263) and
   closes the page unless it is closed already (line 1266) *)
RECURSIVE CleanupLoop(_, _)
CleanupLoop(s, list) ==
    IF Len(list) = 0
    THEN [s EXCEPT !.cleanup = [pc |-> "idle", page |-> 0, rest |-> <<>>]]
    ELSE LET p == Head(list)
             s1 == RemoveItem(s, p)
         IN IF ~s1.pageClosed[p]
            THEN [s1 EXCEPT !.cleanup =
                    [pc |-> "closing", page |-> p, rest |-> Tail(list)]]
            ELSE CleanupLoop(s1, Tail(list))

(* the timer of startPagePoolCleanup fires (lines 1498-1500, 1513-1533) *)
CleanupPagePool ==
    /\ timers.cleanup
    /\ cleanup.pc = "idle"
    /\ PagesToRemove(pagePool, 1) # <<>>
    /\ Apply(CleanupLoop(Cur, PagesToRemove(pagePool, 1)))
    /\ UNCHANGED <<boot, now, faultsLeft, initCalls>>

(* page.close() of the sweep settles (lines 1267-1281), the loop goes on *)
CleanupCloseDone(ok) ==
    /\ cleanup.pc = "closing"
    /\ Outcome(ok, PageUsable(Cur, cleanup.page))
    /\ Apply(CleanupLoop(IF ok THEN ClosedAndCounted(Cur, cleanup.page)
                         ELSE Cur,
                         cleanup.rest))
    /\ UNCHANGED <<boot, now, initCalls>>

(* ---------------- the browser sweep ---------------- *)

(* a sweep that replaces the browsers that are too old and no others *)
RECURSIVE BrowsersToReplaceOldOnly(_, _)
BrowsersToReplaceOldOnly(s, i) ==
    IF i > Len(s.browsers) THEN <<>>
    ELSE LET b == s.browsers[i]
             age == now - s.inst[b].createdAt
             idleTime == now - s.inst[b].lastUsed
             old == age > browserMaxAge
                    \/ (idleTime > browserMaxAge /\ s.inst[b].activePages = 0)
         IN (IF old THEN <<b>> ELSE <<>>)
            \o BrowsersToReplaceOldOnly(s, i + 1)

(* performBrowserHealthCheck, lines 1466-1482: a browser that is both too
   old and unhealthy is pushed twice *)
RECURSIVE BrowsersToReplace(_, _)
BrowsersToReplace(s, i) ==
    IF i > Len(s.browsers) THEN <<>>
    ELSE LET b == s.browsers[i]
             age == now - s.inst[b].createdAt
             idleTime == now - s.inst[b].lastUsed
             old == age > browserMaxAge
                    \/ (idleTime > browserMaxAge /\ s.inst[b].activePages = 0)
         IN (IF old THEN <<b>> ELSE <<>>)
            \o (IF ~s.inst[b].isHealthy THEN <<b>> ELSE <<>>)
            \o BrowsersToReplace(s, i + 1)

(* the loop of lines 1485-1487 up to the browser.close() of the next
   replaceUnhealthyBrowser *)
HealthLoop(s, list) ==
    IF Len(list) = 0
    THEN [s EXCEPT !.health = [pc |-> "idle", browser |-> 0, rest |-> <<>>]]
    ELSE [s EXCEPT !.health =
            [pc |-> "close", browser |-> Head(list), rest |-> Tail(list)]]

(* the timer of startBrowserHealthCheck fires (lines 1447-1449, 1462-1487) *)
PerformBrowserHealthCheck ==
    /\ timers.health
    /\ health.pc = "idle"
    /\ BrowsersToReplace(Cur, 1) # <<>>
    /\ Apply(HealthLoop(Cur, BrowsersToReplace(Cur, 1)))
    /\ UNCHANGED <<boot, now, faultsLeft, initCalls>>

(* browser.close() of the sweep's replaceUnhealthyBrowser settles (lines
   1052-1058, 1064-1069) *)
HealthCloseDone(ok) ==
    /\ health.pc = "close"
    /\ Outcome(ok, Closable(Cur, health.browser))
    /\ Apply(IF ok
             THEN [BrowserClosed(Cur, health.browser) EXCEPT
                     !.health.pc = "launch"]
             ELSE HealthLoop(Cur, health.rest))
    /\ UNCHANGED <<boot, now, initCalls>>

(* puppeteer.launch of the sweep's replacement settles (lines 1061-1069) *)
HealthLaunchDone(ok) ==
    /\ health.pc = "launch"
    /\ Outcome(ok, CanLaunch(Cur))
    /\ Apply(HealthLoop(IF ok THEN CreateBrowserInstance(Cur) ELSE Cur,
                        health.rest))
    /\ UNCHANGED <<boot, now, initCalls>>

(* ---------------- onModuleDestroy and restartBrowsers ---------------- *)

(* closeAllBrowsers from the end of its loop over the pool to its return
   (lines 1401-1404) and, for restartBrowsers, to the launches of
   initializeBrowsers (lines 1410, 780-790), which the action adds to
   boot.pending *)
CloseAllReturn(s) ==
    LET s1 == [s EXCEPT !.browsers = <<>>]
    IN IF s.down.kind = "restart"
       THEN [s1 EXCEPT !.down.pc = "init"]
       ELSE [s1 EXCEPT !.down.pc = "idle", !.down.returned = @ + 1]

(* closeAllBrowsers after its loop over the pool: the pool is cleared (line
   1384) and browser.close() is called on every browser of this.browsers
   (lines 1387-1399); Promise.all of no promise resolves at once *)
CloseAllBrowsersStart(s) ==
    LET s1 == [s EXCEPT !.pagePool = <<>>]
        closing == {s.browsers[i] : i \in 1..Len(s.browsers)}
    IN IF closing = {}
       THEN CloseAllReturn(s1)
       ELSE [s1 EXCEPT !.down.pc = "browsers", !.down.pending = closing]

(* the loop of closeAllBrowsers over this.pagePool (lines 1373-1381) from
   position down.index up to the next page.close() it awaits; the loop reads
   the array as it is when it gets there *)
RECURSIVE CloseAllLoop(_)
CloseAllLoop(s) ==
    IF s.down.index > Len(s.pagePool)
    THEN CloseAllBrowsersStart(s)
    ELSE LET p == s.pagePool[s.down.index].page
         IN IF ~s.pageClosed[p]
            THEN [s EXCEPT !.down.pc = "page", !.down.page = p]
            ELSE CloseAllLoop([s EXCEPT !.down.index = @ + 1])

(* the launches that initializeBrowsers starts when the segment that led
   from state s to state t has reached it from restartBrowsers *)
BootAfter(s, t) ==
    IF s.down.pc # "init" /\ t.down.pc = "init"
    THEN [boot EXCEPT !.pending = @ + LaunchesStarted(t)]
    ELSE boot

(* onModuleDestroy is called on the running service (lines 773-777): both
   timers are stopped, then closeAllBrowsers runs to its first await *)
OnModuleDestroy ==
    /\ Ready
    /\ down.pc = "idle"
    /\ down.destroys < MaxShutdownCalls
    /\ Apply(CloseAllLoop(
            [Cur EXCEPT !.timers = TimersStopped,
                        !.down.kind = "destroy",
                        !.down.index = 1,
                        !.down.destroys = @ + 1]))
    /\ UNCHANGED <<boot, now, faultsLeft, initCalls>>

(* restartBrowsers is called on the running service (lines 1407-1409) *)
RestartBrowsers ==
    /\ Ready
    /\ boot.pending = 0
    /\ down.pc = "idle"
    /\ down.restarts < MaxRestarts
    /\ LET t == CloseAllLoop(
                    [Cur EXCEPT
                        !.down.kind = "restart",
                        !.down.index = 1,
                        !.down.restarts = @ + 1,
                        !.down.result = "none",
                        !.down.oldBrowsers =
                            {browsers[i] : i \in 1..Len(browsers)},
                        !.down.oldPages =
                            {pagePool[i].page : i \in 1..Len(pagePool)}])
       IN Apply(t) /\ boot' = BootAfter(Cur, t)
    /\ UNCHANGED <<now, faultsLeft, initCalls>>

(* page.close() of the loop of closeAllBrowsers settles (lines 1375-1380): a
   close that succeeds runs the listeners of the page and of its browser, a
   failure is logged; the loop goes on *)
CloseAllPageDone(ok) ==
    /\ down.pc = "page"
    /\ Outcome(ok, PageUsable(Cur, down.page))
    /\ LET s1 == IF ok THEN PageCloseEvents(Cur, down.page) ELSE Cur
           t == CloseAllLoop([s1 EXCEPT !.down.index = @ + 1])
       IN Apply(t) /\ boot' = BootAfter(Cur, t)
    /\ UNCHANGED <<now, initCalls>>

(* browser.close() of one browser settles in closeAllBrowsers (lines
   1388-1398): the browser is gone and its "disconnected" listener has run,
   or the error is logged; when the last one has settled Promise.all
   resolves *)
CloseAllBrowserDone(b, ok) ==
    /\ down.pc = "browsers"
    /\ b \in down.pending
    /\ Outcome(ok, Closable(Cur, b))
    /\ LET s1 == IF ok
                 THEN [Cur EXCEPT !.inst[b].connected = FALSE,
                                  !.inst[b].isHealthy = FALSE]
                 ELSE Cur
           s2 == [s1 EXCEPT !.down.pending = @ \ {b}]
           t == IF s2.down.pending = {} THEN CloseAllReturn(s2) ELSE s2
       IN Apply(t) /\ boot' = BootAfter(Cur, t)
    /\ UNCHANGED <<now, initCalls>>

(* the external calls of closeAllBrowsers settle *)
CloseAllStep ==
    \/ \E ok \in BOOLEAN : CloseAllPageDone(ok)
    \/ \E b \in BrowserIds, ok \in BOOLEAN : CloseAllBrowserDone(b, ok)

(* ---------------- PdfService (src/unnamed/part_004) ---------------- *)

(* the html and url arguments the callers pass *)
HtmlInputs ==
    {Str(<<>>), Str(<<"<div>">>), Str(<<"<html>", "<div>", "</html>">>),
     Undefined, Num(0), Num(5)}

UrlInputs ==
    {Str(<<>>), Str(<<"invalid-url">>), Str(<<"https:", "//">>),
     Str(<<"https:", "//", "example.com">>), Undefined}

(* !v in JavaScript *)
Falsy(v) ==
    \/ v.type = "undefined"
    \/ v.type = "number" /\ v.value = 0
    \/ v.type = "string" /\ Len(v.chars) = 0

(* a validation that tests the emptiness of html and not its type *)
InvalidHtmlFalsyOnly(v) == Falsy(v)

(* convertHtmlToPdf, line 32: !html || typeof html !== "string" *)
InvalidHtml(v) == Falsy(v) \/ v.type # "string"

(* String(v), which new URL(v) applies to its argument *)
StringOf(v) ==
    IF v.type = "string" THEN v.chars
    ELSE IF v.type = "number" THEN <<"digits">>
    ELSE <<"undefined">>

(* new URL(url) without a base (convertUrlToPdf, line 213) returns for an
   absolute URL, a scheme followed by a host, and throws otherwise *)
UrlParses(v) ==
    LET chars == StringOf(v)
    IN /\ Len(chars) >= 3
       /\ chars[1] = "https:"
       /\ chars[2] = "//"
       /\ chars[3] = "example.com"

(* convertUrlToPdf, lines 212-217 *)
InvalidUrl(v) == ~UrlParses(v)

(* the validation error of a conversion (lines 33-34, 215-216):
   recordError, then the BadRequestException that the catch block rethrows
   (lines 141-143, 381-383); the finally block finds no page and calls no
   closePage (lines 167-172, 405-410) *)
RejectInput(s, r, kind, v, message) ==
    [s EXCEPT !.conv[r] =
        [pc |-> "done", kind |-> kind, input |-> v,
         recorded |-> <<[type |-> kind, message |-> message]>>,
         result |-> "BadRequestException", message |-> message,
         page |-> 0, closes |-> 0]]

(* the conversion goes on to browserPoolService.getPage() (lines 46-47,
   219-220) *)
AcquirePage(s, r, kind, v) ==
    GetPage([s EXCEPT !.conv[r] =
                [pc |-> "acquiring", kind |-> kind, input |-> v,
                 recorded |-> <<>>, result |-> "none", message |-> "none",
                 page |-> 0, closes |-> 0]],
            r)

(* a caller invokes convertHtmlToPdf(html) (lines 26-47).  Conversions are
   numbered in the order of their calls. *)
ConvertHtmlToPdf(r, html) ==
    /\ Ready
    /\ conv[r].pc = "idle"
    /\ req[r].pc = "idle"
    /\ r > 1 => conv[r - 1].pc # "idle"
    /\ Apply(IF InvalidHtml(html)
             THEN RejectInput(Cur, r, "html", html, "Invalid HTML content")
             ELSE AcquirePage(Cur, r, "html", html))
    /\ UNCHANGED <<boot, now, faultsLeft, initCalls>>

(* a caller invokes convertUrlToPdf(url) (lines 206-220) *)
ConvertUrlToPdf(r, url) ==
    /\ Ready
    /\ conv[r].pc = "idle"
    /\ req[r].pc = "idle"
    /\ r > 1 => conv[r - 1].pc # "idle"
    /\ Apply(IF InvalidUrl(url)
             THEN RejectInput(Cur, r, "url", url, "Invalid URL format")
             ELSE AcquirePage(Cur, r, "url", url))
    /\ UNCHANGED <<boot, now, faultsLeft, initCalls>>

(* the error the catch block makes of a failure that is not a
   BadRequestException (lines 141-166, 381-404); convertUrlToPdf records
   it (line 400) *)
ConversionError(c) ==
    [c EXCEPT !.result = "BadRequestException",
              !.message = "Failed to convert",
              !.recorded = IF c.kind = "url"
                           THEN Append(@, [type |-> "url",
                                           message |-> "Failed to convert"])
                           ELSE @]

(* a finally block that returns without closing the page *)
ConvertFinallySkipsClose(s, r) == [s EXCEPT !.conv[r].pc = "done"]

(* the finally block of a conversion (lines 167-172, 405-410): closePage
   is called on the page, if the variable holds one, and awaited *)
ConvertFinally(s, r) ==
    LET page == s.conv[r].page
    IN IF page # 0
       THEN ClosePageCall([s EXCEPT !.conv[r].pc = "closing",
                                    !.conv[r].closes = @ + 1],
                          r, page)
       ELSE [s EXCEPT !.conv[r].pc = "done"]

(* an await inside the try block has thrown (lines 121-166, 356-404) *)
ConvertFails(s, r) ==
    ConvertFinally([s EXCEPT !.conv[r] = ConversionError(@)], r)

(* getPage has thrown: the catch block makes the error, the finally block
   finds no page (lines 167-172, 405-410) *)
ConvertGetPageFailed(r) ==
    /\ conv[r].pc = "acquiring"
    /\ req[r].pc = "failed"
    /\ Apply(ConvertFails(Cur, r))
    /\ UNCHANGED <<boot, now, faultsLeft, initCalls>>

(* the work on the page that getPage returned settles (lines 47-127,
   220-356): the pdf buffer, or an error after the retries; the finally
   block then calls closePage on the page (lines 168-170, 406-408) *)
RenderDone(r, ok) ==
    /\ conv[r].pc = "acquiring"
    /\ req[r].pc = "holding"
    /\ ok => PageUsable(Cur, req[r].page)
    /\ LET s1 == [Cur EXCEPT !.conv[r].page = req[r].page]
       IN Apply(IF ok
                THEN ConvertFinally([s1 EXCEPT !.conv[r].result = "pdf"], r)
                ELSE ConvertFails(s1, r))
    /\ UNCHANGED <<boot, now, faultsLeft, initCalls>>

(* closePage has returned and the conversion returns or throws *)
ConvertReturns(r) ==
    /\ conv[r].pc = "closing"
    /\ req[r].pc = "released"
    /\ Apply([Cur EXCEPT !.conv[r].pc = "done"])
    /\ UNCHANGED <<boot, now, faultsLeft, initCalls>>

(* ---------------- retryOperation (src/unnamed/part_004) ---------------- *)

(* the messages of the errors that page.goto, the wait for the page to load
   and page.pdf throw *)
Failures == {"timeout", "closed"}

(* the message of the PdfError that the operation makes of an error (lines
   109-112, 268-278, 341-348) *)
OperationError(stage, e) ==
    <<IF stage = "navigation" THEN "Navigation failed: "
      ELSE "PDF generation failed: ",
      e>>

(* a retryOperation that waits after every failed attempt *)
RetriesLeftAlways(t) == t.attempt <= t.maxRetries

(* retryOperation, line 190: attempt < maxRetries *)
RetriesLeft(t) == t.attempt < t.maxRetries

(* retryOperation at the head of its loop (line 182): the operation is
   invoked (line 184) or, the loop over, lastError is thrown (line 203) to
   the conversion, whose catch and finally blocks run *)
RetryLoop(s, r) ==
    LET t == s.retry[r]
    IN IF t.attempt <= t.maxRetries
       THEN [s EXCEPT !.retry[r].pc = "operation", !.retry[r].calls = @ + 1]
       ELSE ConvertFails([s EXCEPT !.retry[r].pc = "thrown",
                                   !.retry[r].thrown = t.lastError],
                         r)

(* retryOperation(operation, maxRetries, delay) from its entry to its first
   await (lines 176-184) *)
RetryOperation(s, r, stage, maxRetries, delay) ==
    RetryLoop([s EXCEPT !.retry[r] =
                  [pc |-> "operation", stage |-> stage,
                   maxRetries |-> maxRetries, first |-> delay,
                   delay |-> delay, attempt |-> 1, calls |-> 0,
                   waits |-> <<>>, errors |-> <<>>,
                   lastError |-> <<"Operation failed after all retries">>,
                   thrown |-> <<>>]],
              r)

(* getPage has returned its page to the conversion (lines 47, 220):
   convertHtmlToPdf sets the content and waits for the page to load (lines
   48-57), convertUrlToPdf navigates with retries (lines 223-283) *)
PageAcquired(r) ==
    /\ conv[r].pc = "acquiring"
    /\ req[r].pc = "holding"
    /\ LET s1 == [Cur EXCEPT !.conv[r].page = req[r].page]
       IN Apply(IF conv[r].kind = "url"
                THEN RetryOperation([s1 EXCEPT !.conv[r].pc = "navigating"],
                                    r, "navigation", navigationRetries,
                                    navigationRetryDelay)
                ELSE [s1 EXCEPT !.conv[r].pc = "loading"])
    /\ UNCHANGED <<boot, now, faultsLeft, initCalls>>

(* page.setContent and waitForPageLoad of convertHtmlToPdf (lines 48-57),
   or waitForPageLoad of convertUrlToPdf (lines 286-288), settle: the pdf
   is generated with retries (lines 73-118, 307-353), or the error goes to
   the catch block *)
PageLoadDone(r, ok) ==
    /\ conv[r].pc = "loading"
    /\ ok => PageUsable(Cur, conv[r].page)
    /\ Apply(IF ok
             THEN RetryOperation([Cur EXCEPT !.conv[r].pc = "pdf"],
                                 r, "pdf_generation", pdfRetries, pdfRetryDelay)
             ELSE ConvertFails(Cur, r))
    /\ UNCHANGED <<boot, now, faultsLeft, initCalls>>

(* the operation of a retryOperation call settles (lines 184-200): its
   result is returned to the conversion, which goes on (lines 285-288) or
   returns the pdf through its finally block (lines 120, 355); or its error
   e is kept as lastError, and the call waits for delay ms when another
   attempt follows *)
OperationDone(r, ok, e) ==
    /\ retry[r].pc = "operation"
    /\ ok => PageUsable(Cur, conv[r].page)
    /\ LET t == retry[r]
           message == OperationError(t.stage, e)
           failed == [Cur EXCEPT !.retry[r].errors = Append(@, message),
                                 !.retry[r].lastError = message]
           returned == [Cur EXCEPT !.retry[r].pc = "returned"]
       IN Apply(IF ok
                THEN IF t.stage = "navigation"
                     THEN [returned EXCEPT !.conv[r].pc = "loading"]
                     ELSE ConvertFinally(
                            [returned EXCEPT !.conv[r].result = "pdf"], r)
                ELSE IF RetriesLeft(t)
                     THEN [failed EXCEPT !.retry[r].pc = "waiting",
                                         !.retry[r].waits = Append(@, t.delay)]
                     ELSE RetryLoop(
                            [failed EXCEPT !.retry[r].attempt = @ + 1], r))
    /\ UNCHANGED <<boot, now, faultsLeft, initCalls>>

(* the timer of line 194 fires: the delay is doubled (line 196) and the
   loop goes to its next attempt *)
RetryTimerFired(r) ==
    /\ retry[r].pc = "waiting"
    /\ Apply(RetryLoop([Cur EXCEPT !.retry[r].delay = @ * 2,
                                   !.retry[r].attempt = @ + 1],
                       r))
    /\ UNCHANGED <<boot, now, faultsLeft, initCalls>>

(* the conversions of the callers, with the steps of their work on the
   page *)
ConvertRetryStep(arrivals) ==
    \/ \E r \in arrivals, html \in HtmlInputs : ConvertHtmlToPdf(r, html)
    \/ \E r \in arrivals, url \in UrlInputs : ConvertUrlToPdf(r, url)
    \/ \E r \in Requests : ConvertGetPageFailed(r)
    \/ \E r \in Requests : PageAcquired(r)
    \/ \E r \in Requests, ok \in BOOLEAN : PageLoadDone(r, ok)
    \/ \E r \in Requests, ok \in BOOLEAN, e \in Failures :
          OperationDone(r, ok, e)
    \/ \E r \in Requests : RetryTimerFired(r)
    \/ \E r \in Requests : ConvertReturns(r)

(* the conversions of the callers *)
ConvertStep(arrivals) ==
    \/ \E r \in arrivals, html \in HtmlInputs : ConvertHtmlToPdf(r, html)
    \/ \E r \in arrivals, url \in UrlInputs : ConvertUrlToPdf(r, url)
    \/ \E r \in Requests : ConvertGetPageFailed(r)
    \/ \E r \in Requests, ok \in BOOLEAN : RenderDone(r, ok)
    \/ \E r \in Requests : ConvertReturns(r)

(* ---------------- environment ---------------- *)

(* a browser process dies: browser.isConnected() turns false and the
   "disconnected" listener marks the instance unhealthy (lines 871-876) *)
Disconnected(b) ==
    /\ b <= launched
    /\ inst[b].connected
    /\ faultsLeft > 0
    /\ faultsLeft' = faultsLeft - 1
    /\ inst' = [inst EXCEPT ![b].connected = FALSE, ![b].isHealthy = FALSE]
    /\ UNCHANGED <<browsers, launched, activeRequests, requestQueue, pagePool,
                   pageOwner, pageClosed, pageHandler, req, boot, cleanup,
                   health, now, queuedLog, grantedLog, again, initCalls,
                   timers, down, conv, retry, closeRejects>>

(* from now on browser.close() rejects for a browser that keeps running *)
CloseBreaks(b) ==
    /\ b <= launched
    /\ inst[b].connected
    /\ b \notin closeRejects
    /\ faultsLeft > 0
    /\ faultsLeft' = faultsLeft - 1
    /\ closeRejects' = closeRejects \cup {b}
    /\ UNCHANGED <<browsers, inst, launched, activeRequests, requestQueue,
                   pagePool, pageOwner, pageClosed, pageHandler, req, boot,
                   cleanup, health, now, queuedLog, grantedLog, again,
                   initCalls, timers, down, conv, retry>>

(* time passes *)
Tick ==
    /\ now < MaxTime
    /\ now' = now + 1
    /\ UNCHANGED <<browsers, inst, launched, activeRequests, requestQueue,
                   pagePool, pageOwner, pageClosed, pageHandler, req, boot,
                   cleanup, health, faultsLeft, queuedLog, grantedLog, again,
                   initCalls, timers, down, conv, retry,
                   closeRejects>>

(* the callers' side of the pool: getPage and closePage calls and the
   external calls they wait for *)
RequestStep(arrivals) ==
    \/ \E r \in arrivals : RequestGetPage(r)
    \/ \E r \in Requests, ok \in BOOLEAN : NewPageDone(r, ok)
    \/ \E r \in Requests, ok \in BOOLEAN : ConfigurePageDone(r, ok)
    \/ \E r \in Requests, ok \in BOOLEAN : ReplaceCloseDone(r, ok)
    \/ \E r \in Requests, ok \in BOOLEAN : ReplaceLaunchDone(r, ok)
    \/ \E r \in Requests : ClosePage(r)
    \/ \E r \in Requests, ok \in BOOLEAN : ResetDone(r, ok)
    \/ \E r \in Requests, ok \in BOOLEAN : PageCloseDone(r, ok)

(* the two sweeps *)
SweepStep ==
    \/ CleanupPagePool
    \/ \E ok \in BOOLEAN : CleanupCloseDone(ok)
    \/ PerformBrowserHealthCheck
    \/ \E ok \in BOOLEAN : HealthCloseDone(ok)
    \/ \E ok \in BOOLEAN : HealthLaunchDone(ok)

BootStep ==
    \/ InitializeBrowsers
    \/ \E ok \in BOOLEAN : InitLaunchDone(ok)

(* the pool with PoolRequests callers, both sweeps and the clock, in runs
   without faults: an external call fails only when it cannot succeed *)
Init == PoolInit /\ faultsLeft = 0

Next ==
    \/ BootStep
    \/ RequestStep(1..PoolRequests)
    \/ SweepStep
    \/ Tick

Spec == Init /\ [][Next]_vars

(* the same with FaultRequests callers and MaxFaults faults *)
InitFaults == PoolInit /\ faultsLeft = MaxFaults

NextFaults ==
    \/ BootStep
    \/ RequestStep(1..FaultRequests)
    \/ SweepStep
    \/ \E b \in BrowserIds : Disconnected(b)
    \/ Tick

SpecFaults == InitFaults /\ [][NextFaults]_vars

(* the concurrency gate with NumRequests callers and MaxFaults faults: no
   sweep, no browser death, the clock stopped *)
NextAdmission ==
    \/ BootStep
    \/ RequestStep(Requests)

SpecAdmission == InitFaults /\ [][NextAdmission]_vars

(* the pool with FaultRequests callers, one of which may call closePage
   twice on its page, both sweeps and the clock, in runs with MaxFaults
   faults *)
NextRelease ==
    \/ BootStep
    \/ RequestStep(1..FaultRequests)
    \/ \E r \in 1..FaultRequests : ClosePageFirst(r)
    \/ ClosePageAgain
    \/ SweepStep
    \/ Tick

SpecRelease == InitFaults /\ [][NextRelease]_vars

(* the pool with FaultRequests callers, both sweeps and the clock, where
   initializeBrowsers is called again on the running service, in runs
   without faults *)
NextRestart ==
    \/ BootStep
    \/ InitializeBrowsersAgain
    \/ RequestStep(1..FaultRequests)
    \/ SweepStep
    \/ Tick

SpecRestart == Init /\ [][NextRestart]_vars

(* the pool with FaultRequests callers and the browser sweep, the clock
   stopped, where every browser of onModuleInit may die (maxBrowsers
   faults) *)
InitRecovery == PoolInit /\ faultsLeft = maxBrowsers

BrowserSweepStep ==
    \/ PerformBrowserHealthCheck
    \/ \E ok \in BOOLEAN : HealthCloseDone(ok)
    \/ \E ok \in BOOLEAN : HealthLaunchDone(ok)

NextRecovery ==
    \/ BootStep
    \/ RequestStep(1..FaultRequests)
    \/ BrowserSweepStep
    \/ \E b \in BrowserIds : Disconnected(b)

(* the resumption of a getPage or closePage call after an external call it
   awaits has settled *)
Resumption ==
    \E r \in Requests, ok \in BOOLEAN :
        \/ NewPageDone(r, ok)
        \/ ConfigurePageDone(r, ok)
        \/ ReplaceCloseDone(r, ok)
        \/ ReplaceLaunchDone(r, ok)
        \/ ResetDone(r, ok)
        \/ PageCloseDone(r, ok)

(* The timer of the browser sweep fires again and again (setInterval, lines
   1447-1449) and every awaited external call settles: the pool does not
   stop while the sweep has something to replace or a call can resume.
   Callers need not call, and browsers need not die. *)
SpecRecovery ==
    /\ InitRecovery
    /\ [][NextRecovery]_vars
    /\ WF_vars(BrowserSweepStep \/ Resumption)

(* the pool with FaultRequests callers, both sweeps and the clock, where
   onModuleDestroy is called up to MaxShutdownCalls times on the running
   service, in runs without faults *)
NextShutdown ==
    \/ BootStep
    \/ RequestStep(1..FaultRequests)
    \/ SweepStep
    \/ OnModuleDestroy
    \/ CloseAllStep
    \/ Tick

SpecShutdown == Init /\ [][NextShutdown]_vars

(* the pool with FaultRequests callers and the browser sweep, the clock
   stopped, where restartBrowsers is called up to MaxRestarts times on the
   running service, in runs without faults *)
NextRestartBrowsers ==
    \/ BootStep
    \/ RequestStep(1..FaultRequests)
    \/ BrowserSweepStep
    \/ RestartBrowsers
    \/ CloseAllStep

SpecRestartBrowsers == Init /\ [][NextRestartBrowsers]_vars

(* PdfService on the pool: PoolRequests conversions, no sweep, the clock
   stopped, in runs without faults *)
NextConvert ==
    \/ BootStep
    \/ ConvertStep(1..PoolRequests)
    \/ Resumption

SpecConvert == Init /\ [][NextConvert]_vars

(* PdfService on the pool with the steps of retryOperation: FaultRequests
   conversions, no sweep, the clock stopped, in runs with MaxFaults faults
   (a browser that dies, an external call of the pool that fails) *)
NextRetry ==
    \/ BootStep
    \/ ConvertRetryStep(1..FaultRequests)
    \/ Resumption
    \/ \E b \in BrowserIds : Disconnected(b)

SpecRetry == InitFaults /\ [][NextRetry]_vars

(* the settling of an external call that a getPage, closePage or
   closeAllBrowsers call awaits *)
CallSettles == Resumption \/ CloseAllStep

(* the getPage calls of the callers and the external calls they wait for *)
GetPageStep(arrivals) ==
    \/ \E r \in arrivals : RequestGetPage(r)
    \/ \E r \in Requests, ok \in BOOLEAN : NewPageDone(r, ok)
    \/ \E r \in Requests, ok \in BOOLEAN : ConfigurePageDone(r, ok)
    \/ \E r \in Requests, ok \in BOOLEAN : ReplaceCloseDone(r, ok)
    \/ \E r \in Requests, ok \in BOOLEAN : ReplaceLaunchDone(r, ok)

(* The concurrency gate with PoolRequests callers that keep their pages,
   where onModuleDestroy is called up to MaxShutdownCalls times, in runs
   with MaxFaults faults (an external call that fails once, or a browser
   whose close() rejects from then on); no sweep, the clock stopped.  Every
   awaited external call settles, with success or failure; callers need not
   call getPage, and onModuleDestroy need not be called. *)
NextQueue ==
    \/ BootStep
    \/ GetPageStep(1..PoolRequests)
    \/ OnModuleDestroy
    \/ CloseAllStep
    \/ \E b \in BrowserIds : CloseBreaks(b)

SpecQueue ==
    /\ InitFaults
    /\ [][NextQueue]_vars
    /\ WF_vars(CallSettles)

(* ======================= properties ======================= *)

(* the requests whose getPage has returned a page and whose closePage has
   not been called *)
Holders == {r \in Requests : req[r].pc = "holding"}

(* the requests that were let through the gate and have not called closePage *)
GrantedNotReleased ==
    {r \in Requests :
        req[r].pc \in {"newPage", "configure", "replaceClose",
                       "replaceLaunch", "holding"}}

(* the requests whose closePage has been called *)
ReleaseCalled ==
    {r \in Requests :
        req[r].pc \in {"reset", "pageClose", "poolClose", "released"}}

InSeq(x, seq) == \E i \in 1..Len(seq) : seq[i] = x

(* C1: in every reachable state, whatever the interleaving of getPage calls,
   page creations, closePage calls and sweeps, activeRequests is at least 0
   and at most maxConcurrentRequests. *)
C1_ActiveRequestsBounded ==
    activeRequests >= 0 /\ activeRequests <= maxConcurrentRequests

(* C1 witness: the gate is full, a request waits behind it and the browser
   sweep is replacing a browser. *)
C1_Witness ==
    /\ activeRequests = maxConcurrentRequests
    /\ Len(requestQueue) > 0
    /\ health.pc # "idle"

(* C2, as claimed: a request holds its slot from the grant until it calls
   closePage, so at most maxConcurrentRequests pages are held at a time and
   activeRequests is the number of requests granted and not yet released. *)
C2_SlotHeldUntilRelease ==
    /\ Cardinality(Holders) <= maxConcurrentRequests
    /\ activeRequests = Cardinality(GrantedNotReleased)

(* the step in which the closePage call of r returns *)
ReleaseReturns(r) ==
    /\ req[r].pc \in {"holding", "reset", "pageClose", "poolClose"}
    /\ req'[r].pc = "released"

(* C3, as claimed: a closePage call frees one slot of the gate, or hands it
   to the request at the head of the queue when there is one; and a queued
   request is taken from the queue only in such a step. *)
C3_ReleaseFreesSlotAndWakes ==
    /\ [][\A r \in Requests :
            ReleaseReturns(r) =>
                \/ activeRequests' = activeRequests - 1
                \/ /\ Len(requestQueue) > 0
                   /\ grantedLog' = Append(grantedLog, Head(requestQueue))]_vars
    /\ [][grantedLog' # grantedLog =>
            \E r \in Requests : ReleaseReturns(r)]_vars

(* C4: the queue is served first in, first out.  Requests are numbered by
   arrival, so queuedLog is the arrival order of the queued requests: the
   requests taken from the queue so far are a prefix of it, no request is
   queued twice, and a request taken from the queue is not waiting again. *)
C4_Fifo ==
    /\ Len(grantedLog) <= Len(queuedLog)
    /\ \A i \in 1..Len(grantedLog) : grantedLog[i] = queuedLog[i]
    /\ \A i, j \in 1..Len(queuedLog) : i < j => queuedLog[i] < queuedLog[j]
    /\ \A i \in 1..Len(grantedLog) : req[grantedLog[i]].pc # "queued"

(* C4 witness: two requests waited in the queue together and both were
   taken from it. *)
C4_Witness ==
    /\ Len(grantedLog) >= 2
    /\ Len(queuedLog) >= 2

(* C5: whenever a request waits in the queue the gate is full, so a new
   getPage call cannot pass a waiting request and no request waits while a
   slot is free. *)
C5_QueueOnlyWhenFull ==
    Len(requestQueue) > 0 => activeRequests = maxConcurrentRequests

(* C5 witness: a request has been taken from the queue and another one is
   still waiting. *)
C5_Witness ==
    /\ Len(grantedLog) >= 1
    /\ Len(requestQueue) >= 1

(* C6, as claimed: with maxConcurrentRequests = 2, as long as no request
   has called closePage (and none has failed), the first two requests were
   never queued and the third one, once it has arrived, is in the queue; a
   fourth request is taken from the queue only after the third. *)
C6_ThirdWaitsForRelease ==
    (/\ maxConcurrentRequests = 2
     /\ ReleaseCalled = {}
     /\ \A r \in Requests : req[r].pc # "failed"
     /\ req[3].pc # "idle")
    => /\ ~InSeq(1, queuedLog) /\ ~InSeq(2, queuedLog)
       /\ req[3].pc = "queued"
       /\ InSeq(4, grantedLog) => InSeq(3, grantedLog)

(* C7, as claimed: no browser of the pool ever has more than
   maxPagesPerBrowser active pages. *)
C7_PagesPerBrowserBounded ==
    \A i \in 1..Len(browsers) :
        inst[browsers[i]].activePages <= maxPagesPerBrowser

(* the step in which the closePage call of r starts on a page that is not in
   the pool *)
ReleaseOfUnpooled(r) ==
    /\ req[r].pc = "holding"
    /\ req'[r].pc # "holding"
    /\ PoolIndexOfPage(pagePool, req[r].page, 1) = 0

(* C8: the page pool never holds more than pagePoolSize items, under Spec's
   interleavings of creations, closePage calls and sweeps; the pool grows
   only when a page is created while it has room, and closePage on a page
   that is not in the pool closes the page instead of adding it. *)
C8_PoolBounded ==
    /\ [](Len(pagePool) <= pagePoolSize)
    /\ [][Len(pagePool') > Len(pagePool) =>
            /\ Len(pagePool) < pagePoolSize
            /\ \E r \in Requests :
                 req[r].pc = "configure" /\ req'[r].pc = "holding"]_vars
    /\ [][\A r \in Requests :
            ReleaseOfUnpooled(r) =>
                /\ pagePool' = pagePool
                /\ req'[r].pc =
                     IF pageClosed[req[r].page] THEN "released"
                     ELSE "pageClose"]_vars

(* C8 witness: the pool is full and the page of a request, created while it
   was full, is being closed by closePage. *)
C8_Witness ==
    /\ Len(pagePool) = pagePoolSize
    /\ \E r \in Requests :
         req[r].pc = "pageClose"
         /\ PoolIndexOfPage(pagePool, req[r].page, 1) = 0

RECURSIVE SumActivePages(_)
SumActivePages(i) ==
    IF i > Len(browsers) THEN 0
    ELSE inst[browsers[i]].activePages + SumActivePages(i + 1)

LockedItems == {i \in 1..Len(pagePool) : pagePool[i].isLocked}

(* the open pages that are not in the pool *)
LiveUnpooledPages ==
    {p \in Pages :
        /\ pageOwner[p] # 0
        /\ ~pageClosed[p]
        /\ PoolIndexOfPage(pagePool, p, 1) = 0}

(* C9, as claimed: the activePages of the browsers add up to the number of
   locked pool items plus the number of open pages outside the pool. *)
C9_ActivePagesAccounting ==
    SumActivePages(1) = Cardinality(LockedItems) + Cardinality(LiveUnpooledPages)

(* the step in which removePageFromPool, called by returnPageToPool after a
   failed reset, has closed page p for request r *)
ResetFailedAndClosed(r, p) ==
    /\ req[r].pc = "poolClose"
    /\ req[r].page = p
    /\ req'[r].pc = "released"
    /\ ~pageClosed[p]
    /\ pageClosed'[p]

(* C10, as claimed, for a close that succeeds: when the reset of a pooled
   page fails on closePage, the page is out of the pool and the close takes
   exactly one off the activePages of the browser that owns the page, and
   nothing off any other browser. *)
C10_ResetFailureDecrementsOwnerOnce ==
    [][\A r \in Requests, p \in Pages :
         ResetFailedAndClosed(r, p) =>
            /\ PoolIndexOfPage(pagePool', p, 1) = 0
            /\ inst'[pageOwner[p]].activePages =
                 inst[pageOwner[p]].activePages - 1
            /\ \A b \in BrowserIds :
                 b # pageOwner[p] =>
                    inst'[b].activePages = inst[b].activePages]_vars

(* a step of the second closePage call of the caller that releases twice *)
SecondReleaseStep ==
    \/ again.pc = "first" /\ again'.pc = "second"
    \/ /\ again.pc = "second"
       /\ req[again.r].pc \in {"reset", "pageClose", "poolClose"}
       /\ req'[again.r] # req[again.r]

(* C11, as claimed: closePage(p); closePage(p) leaves the activePages of
   every browser as the first call left it, that is, no step of the second
   call changes the activePages of any browser. *)
C11_SecondReleaseChangesNoCount ==
    [][SecondReleaseStep =>
        \A b \in BrowserIds : inst'[b].activePages = inst[b].activePages]_vars

(* C12, as claimed: initializeBrowsers is all or nothing.  When one of its
   launches has failed and all of them have settled, the browsers the call
   created have been closed and removed, so this.browsers is empty. *)
C12_InitializeAllOrNothing ==
    (boot.pc = "failed" /\ boot.pending = 0) =>
        /\ Len(browsers) = 0
        /\ \A b \in BrowserIds : ~inst[b].connected

(* C13: a call of initializeBrowsers made while this.browsers is not empty
   starts no launch, creates no browser and changes nothing of the pool. *)
C13_InitializeIdempotent ==
    [][(initCalls' # initCalls /\ Len(browsers) > 0) =>
         /\ boot' = boot
         /\ launched' = launched
         /\ UNCHANGED <<browsers, inst, activeRequests, requestQueue, pagePool,
                        pageOwner, pageClosed, pageHandler, req, cleanup,
                        health>>]_vars

(* C13 witness: initializeBrowsers was called again while the browsers of
   onModuleInit were in the pool and a caller held a page: no launch is
   pending and no browser beyond the first maxBrowsers was ever launched. *)
C13_Witness ==
    /\ initCalls = 1
    /\ boot = [pc |-> "ready", pending |-> 0]
    /\ launched = maxBrowsers
    /\ Len(browsers) = maxBrowsers
    /\ \E r \in Requests : req[r].pc = "holding"

(* the step in which createNewPage selects a browser for request r *)
SelectsBrowser(r) ==
    /\ req'[r] # req[r]
    /\ req'[r].pc \in {"newPage", "replaceClose"}

(* C14: the browser createNewPage selects is in this.browsers and healthy,
   no healthy browser has fewer active pages, and every healthy browser
   before it in this.browsers has more; an unhealthy browser is never
   selected.  (No step changes a browser between the selection and the end
   of its synchronous segment, so the selection reads the values the step
   leaves.) *)
C14_LeastLoadedHealthyFirst ==
    [][\A r \in Requests :
         SelectsBrowser(r) =>
            LET b == req'[r].browser
                i == IndexOf(browsers', b, 1)
            IN /\ i > 0
               /\ inst'[b].isHealthy
               /\ \A j \in 1..Len(browsers') :
                    inst'[browsers'[j]].isHealthy =>
                       /\ inst'[b].activePages <= inst'[browsers'[j]].activePages
                       /\ j < i =>
                            inst'[b].activePages < inst'[browsers'[j]].activePages]_vars

(* C14 witness: a request is creating its page on the second browser of
   this.browsers while the first one is unhealthy and has no more active
   pages than the selected one. *)
C14_Witness ==
    \E r \in Requests :
        /\ req[r].pc = "newPage"
        /\ Len(browsers) >= 2
        /\ req[r].browser = browsers[2]
        /\ ~inst[browsers[1]].isHealthy
        /\ inst[browsers[1]].activePages <= inst[browsers[2]].activePages

(* the step in which the getPage call of r passes the gate, at its call or
   when it is taken from the queue *)
PassesGate(r) ==
    /\ req[r].pc \in {"idle", "queued"}
    /\ req'[r].pc \notin {"idle", "queued"}

(* C15, as claimed: a getPage call that passes the gate while this.browsers
   holds browsers and every one of them is unhealthy fails and returns no
   page. *)
C15_NoHealthyBrowserFails ==
    [][\A r \in Requests :
         (/\ PassesGate(r)
          /\ Len(browsers') > 0
          /\ \A i \in 1..Len(browsers') : ~inst'[browsers'[i]].isHealthy)
         => req'[r].pc = "failed"]_vars

(* this.browsers holds browsers and none of them is healthy *)
NoHealthyBrowser ==
    /\ Len(browsers) > 0
    /\ \A i \in 1..Len(browsers) : ~inst[browsers[i]].isHealthy

SomeHealthyBrowser ==
    \E i \in 1..Len(browsers) : inst[browsers[i]].isHealthy

(* C16: once every browser of the running pool is unhealthy, and when
   browser creation succeeds (no fault is left and a browser can still be
   launched), a healthy browser is put into the pool; and a getPage call
   that passes the gate while a healthy browser is in the pool does not fail
   for want of a healthy browser. *)
C16_RecoversFromTotalHealthLoss ==
    /\ (Ready /\ NoHealthyBrowser /\ faultsLeft = 0 /\ CanLaunch(Cur))
          ~> SomeHealthyBrowser
    /\ [][\A r \in Requests :
            (/\ PassesGate(r)
             /\ \E i \in 1..Len(browsers') : inst'[browsers'[i]].isHealthy)
            => req'[r].pc # "failed"]_vars

(* C16 witness: every browser of onModuleInit has died, the sweep has closed
   one of them and is launching its replacement, which can succeed. *)
C16_Witness ==
    /\ Ready
    /\ faultsLeft = 0
    /\ ~SomeHealthyBrowser
    /\ health.pc = "launch"
    /\ CanLaunch(Cur)
    /\ launched = maxBrowsers

(* C17, as claimed: a getPage call replaces at most one browser.  When the
   launch of its replacement has settled and createNewPage is retried, the
   call goes on to create its page or fails; it does not start another
   replacement. *)
C17_AtMostOneReplacement ==
    [][\A r \in Requests :
         req[r].pc = "replaceLaunch" =>
            req'[r].pc \in {"replaceLaunch", "newPage", "failed"}]_vars

(* the step in which the browser sweep has closed browser b, which is older
   than browserMaxAge and has no active page, and goes on to launch its
   replacement *)
SweepRetires(b) ==
    /\ health.pc = "close"
    /\ health'.pc = "launch"
    /\ health.browser = b
    /\ now - inst[b].createdAt > browserMaxAge
    /\ inst[b].activePages = 0

(* C18, as claimed: a replacement by the browser sweep keeps the number of
   browsers.  Retiring an old browser without pages takes exactly that
   browser out of this.browsers, and the launch that follows, when it
   succeeds, puts exactly one browser in. *)
C18_SweepKeepsBrowserCount ==
    [][/\ \A b \in BrowserIds :
            SweepRetires(b) =>
               /\ InSeq(b, browsers)
               /\ ~InSeq(b, browsers')
               /\ Len(browsers') = Len(browsers) - 1
       /\ (health.pc = "launch" /\ launched' # launched) =>
              Len(browsers') = Len(browsers) + 1]_vars

(* the requests inside getPage: they passed the gate and their call has not
   returned *)
InFlight ==
    {r \in Requests :
        req[r].pc \in {"newPage", "configure", "replaceClose", "replaceLaunch"}}

(* the step in which the getPage call of r, which had passed the gate
   before, fails *)
FailsAfterGrant(r) ==
    /\ r \in InFlight
    /\ req'[r].pc = "failed"

(* C19: a getPage call that fails after it passed the gate gives its slot
   back before the error reaches the caller.  activeRequests always counts
   exactly the calls that are inside getPage, so a failed call holds no
   slot; and the step in which a call fails takes the head of the queue, if
   any, out of the queue and lets it pass the gate. *)
C19_FailureReleasesSlot ==
    /\ [](activeRequests = Cardinality(InFlight))
    /\ [][\A r \in Requests :
            FailsAfterGrant(r) =>
               /\ r \notin InFlight'
               /\ Len(requestQueue) > 0 =>
                    /\ Len(grantedLog') > Len(grantedLog)
                    /\ grantedLog'[Len(grantedLog) + 1] = Head(requestQueue)
                    /\ req'[Head(requestQueue)].pc # "queued"]_vars

(* C19 witness: the call of request 1 has failed while the call of request
   2 was still inside getPage, and request 3, which waited behind the two,
   has been taken from the queue and is inside getPage. *)
C19_Witness ==
    /\ req[1].pc = "failed"
    /\ req[2].pc \in {"newPage", "configure"}
    /\ grantedLog = <<3>>
    /\ 3 \in InFlight

(* the step in which the getPage call of r returns a page of the pool *)
CacheHit(r) ==
    /\ PassesGate(r)
    /\ req'[r].pc = "holding"

(* C20, as claimed: getPage returns a page of the pool only if its item is
   unlocked and its age, now - createdAt, is within maxPageAge; the step
   locks the item and sets its lastUsed to now. *)
C20_CachedPageUnlockedAndYoung ==
    [][\A r \in Requests :
         CacheHit(r) =>
            LET p == req'[r].page
                i == PoolIndexOfPage(pagePool, p, 1)
                j == PoolIndexOfPage(pagePool', p, 1)
            IN /\ i > 0
               /\ ~pagePool[i].isLocked
               /\ now - pagePool[i].createdAt <= maxPageAge
               /\ j > 0
               /\ pagePool'[j].isLocked
               /\ pagePool'[j].lastUsed = now]_vars

(* the step in which the closePage call of r returns to its caller *)
ReleaseEnds(r) ==
    /\ req[r].pc \in {"holding", "reset", "pageClose", "poolClose"}
    /\ req'[r].pc \notin {"holding", "reset", "pageClose", "poolClose"}

(* the step in which resetPageForReuse has failed for the page p of r: the
   call goes on to close the page, or returns because the page is closed *)
ResetFails(r, p) ==
    /\ req[r].pc = "reset"
    /\ req[r].page = p
    /\ \/ req'[r].pc = "poolClose"
       \/ req'[r].pc \notin {"reset", "poolClose"} /\ pageClosed[p]

(* C21: closePage never fails observably.  No call ends with an error for
   its caller, whether the page is in the pool or not, is closed already
   (also by a first closePage call), or its reset or its close fails; every
   call that ends has returned normally; and when the reset of a page fails
   the page is out of the pool after that step, and it is never unlocked for
   reuse by that step. *)
C21_ReleaseNeverFails ==
    /\ [](\A r \in Requests : req[r].pc # "releaseFailed")
    /\ [][\A r \in Requests : ReleaseEnds(r) => req'[r].pc = "released"]_vars
    /\ [][\A r \in Requests, p \in Pages :
            ResetFails(r, p) => PoolIndexOfPage(pagePool', p, 1) = 0]_vars

(* C21 witness: a caller has called closePage twice on its page, an external
   call of one of the two calls has failed though it could have succeeded,
   and both calls have returned. *)
C21_Witness ==
    /\ again.pc = "second"
    /\ req[again.r].pc = "released"
    /\ faultsLeft = 0
    /\ PoolIndexOfPage(pagePool, again.page, 1) = 0

(* the step in which an onModuleDestroy call returns *)
DestroyReturns ==
    /\ down'.returned # down.returned
    /\ down'.kind = "destroy"

(* C22, as claimed: when an onModuleDestroy call returns, the first or the
   second, this.browsers and this.pagePool are empty and both timers are
   stopped. *)
C22_ShutdownLeavesPoolEmpty ==
    [][DestroyReturns =>
        /\ browsers' = <<>>
        /\ pagePool' = <<>>
        /\ timers' = TimersStopped]_vars

(* the step in which a restartBrowsers call returns after all the launches
   of its initializeBrowsers have succeeded *)
RestartCompletes ==
    /\ down.pc = "init"
    /\ down'.pc = "idle"
    /\ down'.result = "ok"

(* C23, as claimed: when restartBrowsers completes and every browser
   creation has succeeded, this.browsers holds exactly maxBrowsers browsers,
   all healthy, none of which was in this.browsers when restartBrowsers was
   called, and this.pagePool holds no page that was in it then, whatever
   getPage and closePage calls, replacements and sweeps ran meanwhile. *)
C23_RestartRenewsPool ==
    [][RestartCompletes =>
        /\ Len(browsers') = maxBrowsers
        /\ \A i \in 1..Len(browsers') :
              /\ inst'[browsers'[i]].isHealthy
              /\ browsers'[i] \notin down.oldBrowsers
        /\ \A i \in 1..Len(pagePool') :
              pagePool'[i].page \notin down.oldPages]_vars

(* the step in which a caller invokes convertHtmlToPdf or convertUrlToPdf
   for request r *)
ConversionCalled(r) ==
    /\ conv[r].pc = "idle"
    /\ conv'[r].pc # "idle"

(* a non-empty string that contains no <html> tag *)
MissingHtmlTag(v) ==
    /\ v.type = "string"
    /\ Len(v.chars) > 0
    /\ \A i \in 1..Len(v.chars) : v.chars[i] # "<html>"

(* C24, as claimed: convertHtmlToPdf called with a non-empty string without
   an <html> tag rejects with BadRequestException at the call, having
   recorded the error ("html", "Missing HTML tags"), and never produces a
   PDF. *)
C24_MissingHtmlTagsRejected ==
    /\ [][\A r \in Requests :
            (/\ ConversionCalled(r)
             /\ conv'[r].kind = "html"
             /\ MissingHtmlTag(conv'[r].input))
            => /\ conv'[r].pc = "done"
               /\ conv'[r].result = "BadRequestException"
               /\ conv'[r].recorded =
                    <<[type |-> "html", message |-> "Missing HTML tags"]>>]_vars
    /\ [](\A r \in Requests :
            (conv[r].kind = "html" /\ MissingHtmlTag(conv[r].input))
            => conv[r].result # "pdf")

(* the input of conversion c is html that is empty or not a string, or a url
   string that is not an absolute URL *)
InvalidInput(c) ==
    \/ /\ c.kind = "html"
       /\ (c.input.type # "string" \/ Len(c.input.chars) = 0)
    \/ /\ c.kind = "url"
       /\ c.input.type = "string"
       /\ c.input.chars # <<"https:", "//", "example.com">>

(* C25: validation precedes the acquisition of a page.  A conversion called
   with empty or non-string html, or with a url string that does not parse,
   rejects at the call with BadRequestException after recording exactly the
   validation error; the call leaves the pool, the gate and the queue as
   they are; and such a conversion never calls getPage or closePage. *)
C25_ValidationBeforeAcquire ==
    /\ [][\A r \in Requests :
            (ConversionCalled(r) /\ InvalidInput(conv'[r]))
            => /\ conv'[r].pc = "done"
               /\ conv'[r].result = "BadRequestException"
               /\ conv'[r].message =
                    IF conv'[r].kind = "html" THEN "Invalid HTML content"
                    ELSE "Invalid URL format"
               /\ conv'[r].recorded =
                    <<[type |-> conv'[r].kind, message |-> conv'[r].message]>>
               /\ UNCHANGED <<req, activeRequests, requestQueue, pagePool,
                              browsers, inst, pageOwner, pageClosed>>]_vars
    /\ [](\A r \in Requests :
            (conv[r].pc # "idle" /\ InvalidInput(conv[r]))
            => req[r] = IdleRequest)

(* C25 witness: a convertUrlToPdf call and a convertHtmlToPdf call were
   rejected for their input while a third conversion, with a valid input,
   holds a page of the pool. *)
C25_Witness ==
    \E r, q \in Requests :
        /\ conv[r].pc = "done"
        /\ InvalidInput(conv[r])
        /\ conv[r].kind = "url"
        /\ conv[q].pc = "acquiring"
        /\ req[q].pc = "holding"
        /\ \E u \in Requests :
             conv[u].pc = "done" /\ conv[u].kind = "html" /\ InvalidInput(conv[u])

(* browser b of this.browsers is eligible for replacement *)
Eligible(b) ==
    \/ now - inst[b].createdAt > browserMaxAge
    \/ now - inst[b].lastUsed > browserMaxAge /\ inst[b].activePages = 0
    \/ ~inst[b].isHealthy

(* the step in which the timer starts a browser sweep that has something to
   replace *)
BrowserSweepStarts ==
    /\ health.pc = "idle"
    /\ health'.pc # "idle"

Occurrences(seq, x) == Cardinality({i \in 1..Len(seq) : seq[i] = x})

(* C26, as claimed: a browser sweep takes up for replacement exactly the
   eligible browsers of this.browsers, each of them once, also one that is
   eligible on several counts; and closing a browser for the sweep takes
   only that browser out of this.browsers and changes the activePages of no
   other browser. *)
C26_SweepReplacesEligibleOnce ==
    /\ [][BrowserSweepStarts =>
            LET list == <<health'.browser>> \o health'.rest
            IN \A b \in BrowserIds :
                 Occurrences(list, b) =
                    IF InSeq(b, browsers) /\ Eligible(b) THEN 1 ELSE 0]_vars
    /\ [][(health.pc = "close" /\ health'.pc = "launch") =>
            \A b \in BrowserIds :
                b # health.browser =>
                   /\ InSeq(b, browsers') = InSeq(b, browsers)
                   /\ inst'[b] = inst[b]]_vars

(* a step of the page pool sweep: its start or the settling of a close *)
CacheSweepStep == cleanup' # cleanup

Elements(seq) == {seq[i] : i \in 1..Len(seq)}

PoolPages(pool) == {pool[i].page : i \in 1..Len(pool)}

ItemOf(pool, p) == pool[PoolIndexOfPage(pool, p, 1)]

(* the pages of the pool items that a sweep starting now has to remove *)
SweepSelection ==
    {pagePool[i].page : i \in
        {j \in 1..Len(pagePool) :
            \/ now - pagePool[j].createdAt > maxPageAge
            \/ /\ now - pagePool[j].lastUsed > maxPageAge
               /\ ~pagePool[j].isLocked}}

(* the pages a running sweep still has to remove or is closing *)
SweepPending(c) ==
    Elements(c.rest) \cup (IF c.pc = "closing" THEN {c.page} ELSE {})

(* C27: a page pool sweep removes exactly the items with
   age > maxPageAge or (idle > maxPageAge and not locked), as they are when
   it starts, and closes their pages.  In every step of the sweep: the
   pages it still has to handle are among those it had to handle before,
   at its start the selected ones; every page the loop has reached is out
   of the pool; every page it is done with is closed (or its browser is
   gone); no other page leaves the pool; and every item that stays in the
   pool stays as it was, with its lock and its timestamps. *)
C27_CacheSweepRemovesExactlyOld ==
    [][CacheSweepStep =>
        LET before == IF cleanup.pc = "idle" THEN SweepSelection
                      ELSE SweepPending(cleanup)
            after == SweepPending(cleanup')
        IN /\ after \subseteq before
           /\ cleanup.pc = "idle" => before # {}
           /\ \A p \in before \ Elements(cleanup'.rest) :
                 p \notin PoolPages(pagePool')
           /\ \A p \in before \ after :
                 pageClosed'[p] \/ ~inst'[pageOwner[p]].connected
           /\ \A p \in PoolPages(pagePool) \ PoolPages(pagePool') :
                 p \in before
           /\ \A p \in PoolPages(pagePool') :
                 /\ p \in PoolPages(pagePool)
                 /\ ItemOf(pagePool', p) = ItemOf(pagePool, p)]_vars

(* C27 witness: the sweep has taken an old item out of the pool and is
   closing its page, while the pool holds an item that was added since. *)
C27_Witness ==
    /\ cleanup.pc = "closing"
    /\ ~pageClosed[cleanup.page]
    /\ Len(pagePool) > 0

(* the browser sweep has retired a browser of a full pool and awaits the
   launch of its replacement *)
SweepReplacementPending ==
    /\ Ready
    /\ health.pc = "launch"
    /\ Len(browsers) = maxBrowsers - 1

(* C28, as claimed: a sweep replacement that fails is made up for later.
   From a state in which the sweep has retired a browser of a full pool and
   its replacement is to be launched, whether that launch succeeds or
   fails, the pool gets back to maxBrowsers browsers, unless no browser can
   be launched any more. *)
C28_FailedReplacementRetried ==
    SweepReplacementPending
        ~> (Len(browsers) >= maxBrowsers \/ ~CanLaunch(Cur))

(* the step in which the pool has closed page p: the page.close() of
   closePage on a page that is not in the pool, or the one of the page pool
   sweep, has succeeded *)
PoolClosesPage(p) ==
    /\ ~pageClosed[p]
    /\ pageClosed'[p]
    /\ \/ \E r \in Requests :
            /\ req[r].pc = "pageClose"
            /\ req[r].page = p
            /\ req'[r].pc = "released"
       \/ /\ cleanup.pc = "closing"
          /\ cleanup.page = p
          /\ cleanup' # cleanup

(* C29, as claimed: when the pool closes a page, the activePages of the
   browser that owns the page goes down by exactly one and the activePages
   of every other browser stays as it is. *)
C29_CloseDecrementsOwnerOnly ==
    [][\A p \in Pages :
         PoolClosesPage(p) =>
            \A b \in BrowserIds :
                inst'[b].activePages =
                    IF b = pageOwner[p] THEN inst[b].activePages - 1
                    ELSE inst[b].activePages]_vars

(* the step in which resetPageForReuse has succeeded for the page p that
   request r is releasing *)
ResetSucceeds(r, p) ==
    /\ req[r].pc = "reset"
    /\ req[r].page = p
    /\ req'[r].pc = "released"
    /\ ~pageClosed[p]

(* the pages whose reset for reuse is in progress *)
BeingReset == {req[r].page : r \in {q \in Requests : req[q].pc = "reset"}}

(* C30, as claimed: a page of the pool that is being released stays locked
   until its reset has succeeded.  While the reset is in progress the item,
   if it is in the pool, is locked and getPage does not return the page;
   after a successful reset the item is in the pool, unlocked; and a
   getPage call that passes the gate while an unlocked item has been idle
   for less than maxPageAge returns a page of the pool. *)
C30_LockedUntilResetDone ==
    /\ [](\A p \in BeingReset :
            PoolIndexOfPage(pagePool, p, 1) > 0 => ItemOf(pagePool, p).isLocked)
    /\ [][\A r \in Requests :
            CacheHit(r) => req'[r].page \notin BeingReset]_vars
    /\ [][\A r \in Requests, p \in Pages :
            ResetSucceeds(r, p) =>
               /\ PoolIndexOfPage(pagePool', p, 1) > 0
               /\ ~ItemOf(pagePool', p).isLocked]_vars
    /\ [][\A r \in Requests :
            (/\ PassesGate(r)
             /\ \E i \in 1..Len(pagePool) :
                  /\ ~pagePool[i].isLocked
                  /\ now - pagePool[i].lastUsed < maxPageAge)
            => CacheHit(r)]_vars

(* the browsers that a replaceUnhealthyBrowser call is replacing: the call
   of the browser sweep and the calls of createNewPage *)
BeingReplaced ==
    (IF health.pc \in {"close", "launch"} THEN {health.browser} ELSE {})
    \cup {req[q].browser :
            q \in {x \in Requests :
                     req[x].pc \in {"replaceClose", "replaceLaunch"}}}

(* an unlocked item of the pool is young enough for getPooledPage, or a
   healthy browser of this.browsers that is not being replaced has fewer
   than maxPagesPerBrowser active pages *)
Servable ==
    \/ AvailablePageIndex(pagePool, 1) > 0
    \/ \E i \in 1..Len(browsers) :
          /\ browsers[i] \notin BeingReplaced
          /\ inst[browsers[i]].isHealthy
          /\ ~BrowserFull(Cur, browsers[i])

(* C31: a getPage call does not wait for a replacement that it does not
   need.  A call made while a replacement is in progress, below the
   concurrency limit, with a usable item in the pool or a healthy browser
   with spare capacity that is not being replaced, returns a page of the
   pool in the same step or goes on to create its page; a call that passes
   the gate starts a replacement only when, at that moment, no item of the
   pool is usable and every healthy browser is full; and a call that is
   creating its page ends without entering a replacement. *)
C31_AcquireNotBlockedByReplacement ==
    /\ [][\A r \in Requests :
            (/\ PassesGate(r)
             /\ req[r].pc = "idle"
             /\ BeingReplaced # {}
             /\ Servable)
            => req'[r].pc \in {"holding", "newPage"}]_vars
    /\ [][\A r \in Requests :
            (PassesGate(r) /\ req'[r].pc = "replaceClose")
            => /\ AvailablePageIndex(pagePool', 1) = 0
               /\ \A i \in 1..Len(browsers') :
                    inst'[browsers'[i]].isHealthy
                       => inst'[browsers'[i]].activePages >= maxPagesPerBrowser]_vars
    /\ [][\A r \in Requests :
            req[r].pc \in {"newPage", "configure"} =>
               req'[r].pc \in {"newPage", "configure", "holding", "failed"}]_vars

(* C31 witness: the browser sweep has replaced one old browser, has closed
   the next one and is launching its replacement, and the first getPage
   call of the run is creating its page on the browser that the sweep
   launched before: that browser became the first healthy one only when the
   second old browser left this.browsers, so the call was made while the
   replacement was in progress. *)
C31_Witness ==
    /\ health.pc = "launch"
    /\ req[1].pc = "newPage"
    /\ req[1].browser > maxBrowsers
    /\ InSeq(req[1].browser, browsers)
    /\ \A r \in Requests \ {1} : req[r].pc = "idle"

(* C32: every retryOperation call invokes its operation at least once and
   at most maxRetries times; it returns at the first attempt that succeeds
   and throws only when maxRetries attempts have failed, with the message of
   the last failure; it waits after a failed attempt only when another
   attempt follows, for delay, 2 * delay, 4 * delay ... ms; and a call that
   has returned or thrown makes no further attempt. *)
C32_RetryBoundedWithBackoff ==
    /\ [](\A r \in Requests :
            LET t == retry[r]
            IN t.pc # "idle" =>
                 /\ t.calls >= 1
                 /\ t.calls <= t.maxRetries
                 /\ t.pc # "thrown" => t.attempt = t.calls
                 /\ Len(t.waits) <= t.maxRetries - 1
                 /\ \A k \in 1..Len(t.waits) :
                      t.waits[k] = t.first * 2 ^ (k - 1)
                 /\ t.pc = "operation" =>
                      Len(t.errors) = t.calls - 1 /\ Len(t.waits) = t.calls - 1
                 /\ t.pc = "waiting" =>
                      Len(t.errors) = t.calls /\ Len(t.waits) = t.calls
                 /\ t.pc = "returned" =>
                      Len(t.errors) = t.calls - 1 /\ Len(t.waits) = t.calls - 1
                 /\ t.pc = "thrown" =>
                      /\ t.calls = t.maxRetries
                      /\ Len(t.errors) = t.maxRetries
                      /\ Len(t.waits) = t.maxRetries - 1
                      /\ t.thrown = t.errors[Len(t.errors)])
    /\ [][\A r \in Requests :
            (retry[r].pc \in {"returned", "thrown"} /\ retry'[r] # retry[r])
            => /\ retry[r].pc = "returned"
               /\ retry[r].stage = "navigation"
               /\ retry'[r].stage = "pdf_generation"
               /\ retry'[r].calls = 1]_vars

(* C32 witness: a navigation has failed three times, the last time with
   another message than before, after waits of 1000 and 2000 ms, and the
   call has thrown. *)
C32_Witness ==
    \E r \in Requests :
        /\ retry[r].pc = "thrown"
        /\ retry[r].maxRetries = navigationRetries
        /\ retry[r].waits = <<navigationRetryDelay, 2 * navigationRetryDelay>>
        /\ retry[r].errors[2] # retry[r].errors[3]

(* the step in which the conversion of r calls closePage *)
ConversionClosesPage(r) == conv'[r].closes # conv[r].closes

(* C33: a conversion calls closePage at most once, and only on the page
   that its getPage call returned: never while getPage has not returned or
   after it failed.  A conversion that has ended has called closePage
   exactly once if getPage returned a page, whether it produced the pdf or
   failed in the navigation, in the wait for the page to load or in the pdf
   generation after all retries, and its page is released; a page that
   getPage returned is held only by a conversion that has not ended. *)
C33_PageReleasedExactlyOnce ==
    /\ [](\A r \in Requests :
            /\ conv[r].closes <= 1
            /\ conv[r].closes = 1 => conv[r].page # 0
            /\ req[r].pc \in {"idle", "queued", "newPage", "configure",
                              "replaceClose", "replaceLaunch", "failed"}
                  => conv[r].page = 0 /\ conv[r].closes = 0
            /\ req[r].pc = "holding" =>
                  conv[r].pc \in {"acquiring", "loading", "navigating", "pdf"}
            /\ conv[r].pc = "done" =>
                  /\ req[r].pc \in {"idle", "failed", "released"}
                  /\ conv[r].closes = IF req[r].pc = "released" THEN 1 ELSE 0)
    /\ [][\A r \in Requests :
            ConversionClosesPage(r) =>
               /\ req[r].pc = "holding"
               /\ conv'[r].page = req[r].page
               /\ conv'[r].closes = 1
               /\ req'[r].pc \in {"reset", "pageClose", "released"}
               /\ req'[r].pc # "released" => req'[r].page = req[r].page]_vars

(* C33 witness: one conversion has ended after its pdf generation failed on
   every attempt and has called closePage once; the getPage call of the
   other one has failed, and that conversion has ended without a closePage
   call. *)
C33_Witness ==
    \E r, q \in Requests :
        /\ conv[r].pc = "done"
        /\ retry[r].pc = "thrown"
        /\ retry[r].stage = "pdf_generation"
        /\ conv[r].closes = 1
        /\ req[r].pc = "released"
        /\ conv[q].pc = "done"
        /\ req[q].pc = "failed"
        /\ conv[q].closes = 0

(* the requests that have the page p: getPage has returned it to them and
   their closePage call on it has not returned *)
HasPage(p) ==
    {r \in Requests :
        /\ req[r].pc \in {"holding", "reset", "pageClose", "poolClose"}
        /\ req[r].page = p}

(* C34: no page is held by two callers at the same time: from the return
   of getPage to the return of closePage, a page belongs to one caller. *)
C34_NoPageHeldTwice ==
    \A p \in Pages : Cardinality(HasPage(p)) <= 1

(* C34 witness: the page that request 1 created and has released is held
   by request 2, which got it from the pool, while request 3 holds another
   page. *)
C34_Witness ==
    /\ req[1].pc = "released"
    /\ req[2].pc = "holding"
    /\ req[2].page = 1
    /\ req[3].pc = "holding"
    /\ req[3].page # 1

(* C35, as claimed: the pool closes neither a page that a caller holds nor
   the browser that made it: while getPage has returned a page and
   closePage has not been called on it, the page is open and its browser
   is running. *)
C35_HeldPageNeverClosed ==
    \A r \in Holders :
        /\ ~pageClosed[req[r].page]
        /\ inst[pageOwner[req[r].page]].connected

(* C36, as claimed: a page that getPage returns from the pool is open, and
   the browser that made it is running and in this.browsers. *)
C36_NoStalePageFromPool ==
    [][\A r \in Requests :
         CacheHit(r) =>
            LET p == req'[r].page
            IN /\ ~pageClosed'[p]
               /\ inst'[pageOwner[p]].connected
               /\ InSeq(pageOwner[p], browsers')]_vars

(* C37, as claimed: this.browsers never holds more than maxBrowsers
   browsers. *)
C37_BrowsersBounded == Len(browsers) <= maxBrowsers

(* C38, as claimed: when every awaited external call settles, with success
   or failure, a getPage call that waits in the queue is eventually given
   a page or rejected, also when onModuleDestroy is called while it
   waits. *)
C38_QueuedEventuallyServed ==
    \A r \in 1..PoolRequests :
        (req[r].pc = "queued") ~> (req[r].pc \in {"holding", "failed"})

(* an onModuleDestroy call has returned and no other is running *)
ShutdownCompleted ==
    /\ down.kind = "destroy"
    /\ down.pc = "idle"
    /\ down.returned > 0

(* C39, as claimed: once onModuleDestroy has returned, no step adds a
   browser to this.browsers or an item to this.pagePool, or increments the
   activePages counter of a browser; what it left empty stays empty. *)
C39_NothingAddedAfterShutdown ==
    [][ShutdownCompleted =>
        /\ Len(browsers') <= Len(browsers)
        /\ Len(pagePool') <= Len(pagePool)
        /\ \A b \in BrowserIds :
              inst'[b].activePages <= inst[b].activePages]_vars

=============================================================================
